---------------------------- MODULE Spec2Model ----------------------------
(***************************************************************************)
(* Model of the "My Folders" content script, version 2.4.0                 *)
(* (src/extension/content.js).                                              *)
(*                                                                          *)
(* Strings are sequences of one-character strings, so that trim() and       *)
(* sanitizeString() are computed, not assumed.  A JavaScript object is a    *)
(* record; the set `undef' of a record lists the properties the object      *)
(* lacks (typeof x.p === 'undefined').                                       *)
(***************************************************************************)
EXTENDS Integers, Sequences, FiniteSets

(***************************************************************************)
(* Bounds of the model.                                                     *)
(***************************************************************************)
MaxFolders == 2
MaxChats == 3
MaxTime == 2
MaxSortLen == 4
MaxSteps == 4
MaxRenderLen == 2

(***************************************************************************)
(* JavaScript values.                                                       *)
(***************************************************************************)
Null == -1

EmptyStr == <<>>

UnnamedChat == <<"U", "n", "n", "a", "m", "e", "d", " ", "C", "h", "a", "t">>

\* String.prototype.trim: strips the white space at both ends.
RECURSIVE TrimLeft(_)
TrimLeft(s) ==
    IF s # <<>> /\ Head(s) = " " THEN TrimLeft(Tail(s)) ELSE s

RECURSIVE TrimRight(_)
TrimRight(s) ==
    IF s # <<>> /\ s[Len(s)] = " " THEN TrimRight(SubSeq(s, 1, Len(s) - 1)) ELSE s

Trim(s) == TrimRight(TrimLeft(s))

\* The serialization of a text node (textContent in, innerHTML out).
EscapeChar(c) ==
    CASE c = "&" -> <<"&", "a", "m", "p", ";">>
      [] c = "<" -> <<"&", "l", "t", ";">>
      [] c = ">" -> <<"&", "g", "t", ";">>
      [] OTHER -> <<c>>

RECURSIVE sanitizeString(_)
sanitizeString(s) ==
    IF s = <<>> THEN <<>> ELSE EscapeChar(Head(s)) \o sanitizeString(Tail(s))

(***************************************************************************)
(* Records of the document.                                                 *)
(***************************************************************************)
NoUndef == {}

NewFolder(name, t) ==
    [name |-> name, chats |-> <<>>, pinned |-> FALSE, pinnedAt |-> Null,
     creationIndex |-> t, undef |-> NoUndef]

NewChat(name, href, t) ==
    [name |-> name, href |-> href, pinned |-> FALSE, pinnedAt |-> Null,
     creationIndex |-> t, undef |-> NoUndef]

\* A record as an earlier release stored it: the properties in `missing' absent.
StoredChat(name, href, pinned, missing) ==
    [name |-> name, href |-> href, pinned |-> pinned, pinnedAt |-> Null,
     creationIndex |-> Null, undef |-> missing]

StoredFolder(name, chats, pinned, missing) ==
    [name |-> name, chats |-> chats, pinned |-> pinned, pinnedAt |-> Null,
     creationIndex |-> Null, undef |-> missing]

EmptyData == [foldersData |-> <<>>, bookmarkChats |-> <<>>]

(***************************************************************************)
(* Persistence: localStorage under LOCAL_STORAGE_KEY.                       *)
(***************************************************************************)
\* The item is absent (getItem returns null).
NoItem == [kind |-> "absent", value |-> EmptyData]

\* A text that is not JSON: JSON.parse throws a SyntaxError.
NotJSON == [kind |-> "garbage", value |-> EmptyData]

\* A JSON text whose top level has no foldersData and bookmarkChats, such as
\* "{}" or the array that release 1.9.0 stored and exported.
JSONWithoutArrays == [kind |-> "object", value |-> EmptyData]

\* reader.result before a read has ended: null.
NoResult == [kind |-> "absent", value |-> EmptyData]

ChatKeys == {"name", "href", "pinned", "pinnedAt", "creationIndex"}

FolderKeys == {"name", "chats", "pinned", "pinnedAt", "creationIndex"}

\* JSON.stringify writes the properties an object has and no other.
stringifyChat(chat) ==
    [k \in ChatKeys \ chat.undef |->
        CASE k = "name" -> chat.name
          [] k = "href" -> chat.href
          [] k = "pinned" -> chat.pinned
          [] k = "pinnedAt" -> chat.pinnedAt
          [] k = "creationIndex" -> chat.creationIndex]

stringifyFolder(folder) ==
    [k \in FolderKeys \ folder.undef |->
        CASE k = "name" -> folder.name
          [] k = "chats" -> [i \in DOMAIN folder.chats |-> stringifyChat(folder.chats[i])]
          [] k = "pinned" -> folder.pinned
          [] k = "pinnedAt" -> folder.pinnedAt
          [] k = "creationIndex" -> folder.creationIndex]

\* JSON.stringify of a document.
JSONstringify(data) ==
    [kind |-> "json",
     value |->
        [foldersData |->
            [i \in DOMAIN data.foldersData |-> stringifyFolder(data.foldersData[i])],
         bookmarkChats |->
            [i \in DOMAIN data.bookmarkChats |-> stringifyChat(data.bookmarkChats[i])]]]

\* The object of a parsed chat: a property the text lacks is undefined.
parseChat(o) ==
    [name |-> o.name, href |-> o.href,
     pinned |-> IF "pinned" \in DOMAIN o THEN o.pinned ELSE FALSE,
     pinnedAt |-> IF "pinnedAt" \in DOMAIN o THEN o.pinnedAt ELSE Null,
     creationIndex |-> IF "creationIndex" \in DOMAIN o THEN o.creationIndex ELSE Null,
     undef |-> ChatKeys \ DOMAIN o]

parseFolder(o) ==
    [name |-> o.name,
     chats |-> IF "chats" \in DOMAIN o
               THEN [i \in DOMAIN o.chats |-> parseChat(o.chats[i])]
               ELSE <<>>,
     pinned |-> IF "pinned" \in DOMAIN o THEN o.pinned ELSE FALSE,
     pinnedAt |-> IF "pinnedAt" \in DOMAIN o THEN o.pinnedAt ELSE Null,
     creationIndex |-> IF "creationIndex" \in DOMAIN o THEN o.creationIndex ELSE Null,
     undef |-> FolderKeys \ DOMAIN o]

\* What JSON.parse returns for a JSON text without the two arrays.
NotADocument ==
    [foldersData |-> <<>>, bookmarkChats |-> <<>>,
     undef |-> {"foldersData", "bookmarkChats"}]

\* JSON.parse throws on a text that is not JSON.
ParseThrows(text) == text.kind = "garbage"

\* JSON.parse of a JSON text.
JSONparse(text) ==
    IF text.kind = "object" THEN NotADocument
    ELSE [foldersData |->
             [i \in DOMAIN text.value.foldersData |->
                 parseFolder(text.value.foldersData[i])],
          bookmarkChats |->
             [i \in DOMAIN text.value.bookmarkChats |->
                 parseChat(text.value.bookmarkChats[i])]]

\* Array.isArray(x.foldersData) && Array.isArray(x.bookmarkChats)
HasArrays(x) == "undef" \notin DOMAIN x

\* A saveData that keeps the stored folders the document does not have.
saveDataMerges(item, data, writeOk) ==
    LET text == JSONstringify(data)
        kept == IF item.kind = "json"
                THEN SelectSeq(item.value.foldersData,
                               LAMBDA f : \A i \in DOMAIN text.value.foldersData :
                                              text.value.foldersData[i].name # f.name)
                ELSE <<>>
    IN  IF writeOk
        THEN [text EXCEPT !.value.foldersData = kept \o @]
        ELSE item

\* A saveData that removes the item when setItem throws.
saveDataClearsOnFailure(item, data, writeOk) ==
    IF writeOk THEN JSONstringify(data) ELSE NoItem

\* A saveData that writes the folders and forgets the bookmarks.
saveDataFoldersOnly(item, data, writeOk) ==
    IF writeOk THEN JSONstringify([data EXCEPT !.bookmarkChats = <<>>]) ELSE item

\* saveData: setItem may throw (quota); the error is logged and swallowed.
saveData(item, data, writeOk) ==
    IF writeOk THEN JSONstringify(data) ELSE item

\* loadData: an absent item and a text that does not parse give the empty
\* document; whatever else parses is returned as it is.
loadData(item) ==
    IF item.kind = "absent" \/ ParseThrows(item) THEN EmptyData ELSE JSONparse(item)

(***************************************************************************)
(* ensureProperties: the defaults of records stored by earlier releases.    *)
(***************************************************************************)
\* A migration that stamps every record with the time of the load.
ensureItemRestamps(r, t) ==
    [r EXCEPT !.pinned = IF "pinned" \in r.undef THEN FALSE ELSE @,
              !.pinnedAt = IF "pinnedAt" \in r.undef THEN Null ELSE @,
              !.creationIndex = t,
              !.undef = @ \ {"pinned", "pinnedAt", "creationIndex"}]

ensureItem(r, t) ==
    [r EXCEPT !.pinned = IF "pinned" \in r.undef THEN FALSE ELSE @,
              !.pinnedAt = IF "pinnedAt" \in r.undef THEN Null ELSE @,
              !.creationIndex = IF "creationIndex" \in r.undef THEN t ELSE @,
              !.undef = @ \ {"pinned", "pinnedAt", "creationIndex"}]

ensureChats(chats, t) == [i \in DOMAIN chats |-> ensureItem(chats[i], t)]

\* ensureProperties throws a TypeError when foldersData or bookmarkChats is
\* undefined, or a folder has no chats (forEach of undefined).
ensurePropertiesThrows(data) ==
    \/ ~HasArrays(data)
    \/ \E i \in DOMAIN data.foldersData : "chats" \in data.foldersData[i].undef

ensureProperties(data, t) ==
    [foldersData |->
        [i \in DOMAIN data.foldersData |->
            [ensureItem(data.foldersData[i], t) EXCEPT !.chats = ensureChats(@, t)]],
     bookmarkChats |-> ensureChats(data.bookmarkChats, t)]

(***************************************************************************)
(* Pinning and ordering.                                                    *)
(***************************************************************************)
\* A toggle that forgets to clear pinnedAt when it unpins.
togglePinKeepsTime(item, t) ==
    IF ~item.pinned
    THEN [item EXCEPT !.pinned = TRUE, !.pinnedAt = t]
    ELSE [item EXCEPT !.pinned = FALSE]

togglePin(item, t) ==
    IF ~item.pinned
    THEN [item EXCEPT !.pinned = TRUE, !.pinnedAt = t]
    ELSE [item EXCEPT !.pinned = FALSE, !.pinnedAt = Null]

\* x || 0
OrZero(x) == IF x = Null THEN 0 ELSE x

\* A comparator that shows the most recently pinned item first.
sortItemsNewestPinFirst(a, b) ==
    IF a.pinned # b.pinned
    THEN (IF a.pinned THEN -1 ELSE 1)
    ELSE IF a.pinned /\ b.pinned
         THEN OrZero(b.pinnedAt) - OrZero(a.pinnedAt)
         ELSE OrZero(a.creationIndex) - OrZero(b.creationIndex)

\* The comparator: negative when a goes first.
sortItems(a, b) ==
    IF a.pinned # b.pinned
    THEN (IF a.pinned THEN -1 ELSE 1)
    ELSE IF a.pinned /\ b.pinned
         THEN OrZero(a.pinnedAt) - OrZero(b.pinnedAt)
         ELSE OrZero(a.creationIndex) - OrZero(b.creationIndex)

\* Array.prototype.sort is stable: x goes after every element that does not
\* compare greater than it.
RECURSIVE SortInsert(_, _)
SortInsert(x, sorted) ==
    IF sorted = <<>> THEN <<x>>
    ELSE IF sortItems(Head(sorted), x) > 0 THEN <<x>> \o sorted
    ELSE <<Head(sorted)>> \o SortInsert(x, Tail(sorted))

RECURSIVE SliceSort(_)
SliceSort(items) ==
    IF items = <<>> THEN <<>>
    ELSE SortInsert(items[Len(items)], SliceSort(SubSeq(items, 1, Len(items) - 1)))

(***************************************************************************)
(* Lookups (Array.prototype.findIndex: 0 stands for -1, "not found").       *)
(***************************************************************************)
RECURSIVE CountChats(_)
CountChats(folders) ==
    IF folders = <<>> THEN 0
    ELSE Len(Head(folders).chats) + CountChats(Tail(folders))

\* The number of chat records of the whole document.
TotalChats(folders, bookmarks) == CountChats(folders) + Len(bookmarks)

MinOf(S) == CHOOSE x \in S : \A y \in S : x <= y

FirstIndex(S) == IF S = {} THEN 0 ELSE MinOf(S)

FolderIndex(folders, name) ==
    FirstIndex({i \in DOMAIN folders : folders[i].name = name})

\* A lookup that takes the first chat of the href, whatever its name.
ChatIndexByHref(chats, name, href) ==
    FirstIndex({i \in DOMAIN chats : chats[i].href = href})

ChatIndex(chats, name, href) ==
    FirstIndex({i \in DOMAIN chats : chats[i].name = name /\ chats[i].href = href})

HrefIndex(chats, href) ==
    FirstIndex({i \in DOMAIN chats : chats[i].href = href})

\* Array.prototype.filter
RECURSIVE FilterOut(_, _, _)
FilterOut(chats, name, href) ==
    IF chats = <<>> THEN <<>>
    ELSE IF Head(chats).name # name \/ Head(chats).href # href
         THEN <<Head(chats)>> \o FilterOut(Tail(chats), name, href)
         ELSE FilterOut(Tail(chats), name, href)

\* A splice without its count: it removes everything from `index' on.
SpliceToEnd(seq, index) ==
    SubSeq(seq, 1, index - 1)

\* Array.prototype.splice(index, 1)
Splice(seq, index) ==
    SubSeq(seq, 1, index - 1) \o SubSeq(seq, index + 1, Len(seq))

(***************************************************************************)
(* folderExpansionState: a JavaScript object used as a map.                 *)
(***************************************************************************)
EmptyExpansion == [n \in {} |-> FALSE]

\* folderExpansionState[name] || false
IsExpanded(exp, name) == IF name \in DOMAIN exp THEN exp[name] ELSE FALSE

\* An assignment of a new object holding the one entry, in place of setting
\* a key of the map.
ExpansionSetOnly(exp, name, value) ==
    [n \in {name} |-> value]

ExpansionSet(exp, name, value) ==
    [n \in DOMAIN exp \cup {name} |-> IF n = name THEN value ELSE exp[n]]

\* A delete that leaves the property in the object.
ExpansionDeleteNothing(exp, name) == exp

ExpansionDelete(exp, name) == [n \in DOMAIN exp \ {name} |-> exp[n]]

(***************************************************************************)
(* Rendering: the children of itemsContainer.                               *)
(***************************************************************************)
Node(kind, name, href, pinned, folder, bookmark, expanded, rows) ==
    [kind |-> kind, name |-> name, href |-> href, pinned |-> pinned,
     folder |-> folder, bookmark |-> bookmark, expanded |-> expanded,
     rows |-> rows]

createChatItem(chat, currentFolderName, isBookmarkChat) ==
    Node("chat", chat.name, chat.href, chat.pinned, currentFolderName,
         isBookmarkChat, FALSE, <<>>)

EmptyMsg == Node("empty", EmptyStr, "", FALSE, EmptyStr, FALSE, FALSE, <<>>)

BookmarkHeader ==
    Node("bookmarkHeader", EmptyStr, "", FALSE, EmptyStr, FALSE, FALSE, <<>>)

renderChatsInFolder(folderChats, currentFolderName) ==
    LET sortedChats == SliceSort(folderChats)
    IN  IF Len(sortedChats) = 0 THEN <<EmptyMsg>>
        ELSE [i \in DOMAIN sortedChats |->
                 createChatItem(sortedChats[i], currentFolderName, FALSE)]

\* createFolder(folderName, folderChats, pinned): one folder container.
createFolder(folder, exp) ==
    Node("folder", folder.name, "", folder.pinned, folder.name, FALSE,
         IsExpanded(exp, folder.name),
         renderChatsInFolder(folder.chats, folder.name))

\* A renderItems that puts up the separator whether or not a bookmark exists.
renderItemsAlwaysHeader(folders, bookmarks, exp) ==
    LET sortedFolders == SliceSort(folders)
        sortedBookmarkChats == SliceSort(bookmarks)
    IN  [i \in DOMAIN sortedFolders |-> createFolder(sortedFolders[i], exp)]
        \o <<BookmarkHeader>>
        \o [i \in DOMAIN sortedBookmarkChats |->
               createChatItem(sortedBookmarkChats[i], EmptyStr, TRUE)]

renderItems(folders, bookmarks, exp) ==
    LET sortedFolders == SliceSort(folders)
        sortedBookmarkChats == SliceSort(bookmarks)
    IN  [i \in DOMAIN sortedFolders |-> createFolder(sortedFolders[i], exp)]
        \o (IF Len(sortedBookmarkChats) > 0 THEN <<BookmarkHeader>> ELSE <<>>)
        \o [i \in DOMAIN sortedBookmarkChats |->
               createChatItem(sortedBookmarkChats[i], EmptyStr, TRUE)]

(***************************************************************************)
(* The inputs of the environment.                                           *)
(***************************************************************************)
NameA == <<"A">>
NameB == <<"B">>
NameX == <<"X">>
TitleT == <<"T">>
TitleLt == <<"<">>

\* What the host page writes into <title>.
Titles == {EmptyStr, TitleT, TitleLt}

Hrefs == {"h1", "h2"}

\* What the user answers to prompt('Enter folder name:'); a cancelled prompt
\* returns null, which is falsy like the empty string.
FolderPrompts == {EmptyStr, <<" ">>, NameA, <<" ", "A">>, NameB}

\* What the user answers to prompt('Enter new chat name:').
ChatPrompts == {EmptyStr, <<" ">>, NameX}

\* A document stored by an earlier release: a pinned folder without pinnedAt
\* and creationIndex, holding a chat without any of the three properties.
LegacyData ==
    [foldersData |->
        <<StoredFolder(NameA,
                       <<StoredChat(TitleT, "h1", FALSE,
                                    {"pinned", "pinnedAt", "creationIndex"})>>,
                       TRUE, {"pinnedAt", "creationIndex"})>>,
     bookmarkChats |-> <<>>]

\* A document saved by an earlier session of this release: at time 1 the user
\* created folder A, added the page (T, h1) to it, created folder B, pinned it
\* and bookmarked the page.
SavedData ==
    [foldersData |->
        <<[NewFolder(NameA, 1) EXCEPT !.chats = <<NewChat(TitleT, "h1", 1)>>],
          togglePin(NewFolder(NameB, 1), 1)>>,
     bookmarkChats |-> <<NewChat(TitleT, "h1", 1)>>]

\* A document saved by another session of this release: at time 1 the user
\* created folder A, added the page (T, h1) to it, renamed that chat X and
\* added the page again, and did the same with the bookmarks.
CopiesData ==
    [foldersData |->
        <<[NewFolder(NameA, 1) EXCEPT
              !.chats = <<NewChat(NameX, "h1", 1), NewChat(TitleT, "h1", 1)>>]>>,
     bookmarkChats |-> <<NewChat(NameX, "h1", 1), NewChat(TitleT, "h1", 1)>>]

\* What localStorage holds when the script first runs.
InitialStores ==
    {NoItem, JSONstringify(LegacyData), JSONstringify(SavedData),
     JSONstringify(CopiesData), NotJSON, JSONWithoutArrays}

(***************************************************************************)
(* State.                                                                   *)
(***************************************************************************)
VARIABLES
    foldersData,            \* data.foldersData
    bookmarkChats,          \* data.bookmarkChats
    folderExpansionState,   \* { [folderName]: boolean }
    store,                  \* localStorage[LOCAL_STORAGE_KEY]
    injected,               \* #my-folders-header is in the page
    itemsDisplay,           \* itemsContainer.style.display
    rendered,               \* the children of itemsContainer
    docTitle,               \* the text of the page's <title>
    locationHref,           \* window.location.href
    clock,                  \* Date.now()
    last,                   \* the handler that ran last and what it did
    steps,                  \* the number of steps taken so far
    sortIn,                 \* input of the sort harness
    sortOut,                \* output of the sort harness
    readerResult,           \* reader.result of the FileReader of importItem
    loads,                  \* the calls of loadData since the page was loaded
    otherTab,               \* the memory of the script in a second tab
    previous,               \* a record of the document before the last step
    v19                     \* the state of the v1.9.0 script

dataVars == <<foldersData, bookmarkChats>>
hostVars == <<docTitle, locationHref, clock>>
\* What no handler of the script changes: it sorts only inside a render, it
\* never starts the FileReader, and the memory of another tab or of another
\* release of the script is out of its reach.
sortVars == <<sortIn, sortOut, readerResult, otherTab, v19>>
vars == <<foldersData, bookmarkChats, folderExpansionState, store, injected,
          itemsDisplay, rendered, docTitle, locationHref, clock, last, steps,
          sortIn, sortOut, readerResult, loads, otherTab, previous, v19>>

Data == [foldersData |-> foldersData, bookmarkChats |-> bookmarkChats]

\* The v1.9.0 script is not the one installed.
NotRunning ==
    [objs |-> <<>>, arrs |-> <<>>, foldersData |-> <<>>, nodes |-> <<>>,
     display |-> "none", item |-> [kind |-> "absent", value |-> <<>>],
     running |-> FALSE]

\* The record of a run in which the document before a step is not recorded.
NoRecord == [data |-> EmptyData, rendered |-> <<>>, recording |-> FALSE]

Last(op, folder, name, href, arg, notice, write, renders) ==
    [op |-> op, folder |-> folder, name |-> name, href |-> href, arg |-> arg,
     notice |-> notice, write |-> write, renders |-> renders]

WriteResult(writeOk) == IF writeOk THEN "ok" ELSE "failed"

\* document.title
DocumentTitle == Trim(docTitle)

\* The memory of a tab in which the script has not run yet.
FreshTab ==
    [foldersData |-> <<>>, bookmarkChats |-> <<>>,
     folderExpansionState |-> EmptyExpansion, injected |-> FALSE,
     itemsDisplay |-> "none", rendered |-> <<>>, docTitle |-> TitleT,
     locationHref |-> "h1", readerResult |-> NoResult, loads |-> 0,
     last |-> Last("start", EmptyStr, EmptyStr, "", EmptyStr, "none", "none", 0)]

Init ==
    /\ foldersData = <<>>
    /\ bookmarkChats = <<>>
    /\ folderExpansionState = EmptyExpansion
    /\ store \in InitialStores
    /\ injected = FALSE
    /\ itemsDisplay = "none"
    /\ rendered = <<>>
    /\ docTitle = TitleT
    /\ locationHref = "h1"
    /\ clock = 1
    /\ last = Last("start", EmptyStr, EmptyStr, "", EmptyStr, "none", "none", 0)
    /\ steps = 0
    /\ sortIn = <<>>
    /\ sortOut = <<>>
    /\ readerResult = NoResult
    /\ loads = 0
    /\ otherTab = FreshTab
    /\ previous = NoRecord
    /\ v19 = NotRunning

\* A duplicate check whose loop starts one element too late.
FolderNameTakenSkipsFirst(folders, name) ==
    \E i \in DOMAIN folders : i > 1 /\ folders[i].name = name

\* foldersData.some((folder) => folder.name === name)
FolderNameTaken(folders, name) ==
    \E i \in DOMAIN folders : folders[i].name = name

\* A rename that leaves the entry of the old name behind.
MoveExpansionKeepsOld(exp, currentFolderName, sanitizedNewName) ==
    ExpansionSet(exp, sanitizedNewName, IsExpanded(exp, currentFolderName))

\* The rename carries the folder's expansion entry over to the new name.
MoveExpansion(exp, currentFolderName, sanitizedNewName) ==
    LET wasExpanded == IsExpanded(exp, currentFolderName)
    IN  ExpansionSet(ExpansionDelete(exp, currentFolderName), sanitizedNewName,
                     wasExpanded)

(***************************************************************************)
(* Steps common to the handlers.                                            *)
(***************************************************************************)
\* One more step of a behaviour of at most MaxSteps steps.
CountStep ==
    /\ steps < MaxSteps
    /\ steps' = steps + 1
    /\ previous' = IF previous = NoRecord THEN NoRecord
                   ELSE [data |-> Data, rendered |-> rendered]

\* A handler of the script runs: the host state stays as it is.
HandlerStep ==
    /\ CountStep
    /\ UNCHANGED <<hostVars, sortVars, loads>>

\* The script starts or is started again: loadData is called, or the count
\* of its calls begins anew.
SessionStep ==
    /\ CountStep
    /\ UNCHANGED <<hostVars, sortVars>>

\* The handler changed nothing but what it reports.
NothingDone(op, folder, name, href, arg, notice) ==
    /\ last' = Last(op, folder, name, href, arg, notice, "none", 0)
    /\ UNCHANGED <<foldersData, bookmarkChats, folderExpansionState, store,
                   injected, itemsDisplay, rendered>>

\* A handler that saves before it mutates: the text written is that of the
\* document as it was.
SaveAndRenderStale(writeOk) ==
    /\ store' = saveData(store, Data, writeOk)
    /\ rendered' = renderItems(foldersData', bookmarkChats', folderExpansionState')

\* A handler that renders before it sets the expansion entry.
SaveAndRenderBeforeExpand(writeOk) ==
    /\ store' = saveData(store, Data', writeOk)
    /\ rendered' = renderItems(foldersData', bookmarkChats', folderExpansionState)

\* saveData({ foldersData, bookmarkChats }) and renderItems() on the new state.
SaveAndRender(writeOk) ==
    /\ store' = saveData(store, Data', writeOk)
    /\ rendered' = renderItems(foldersData', bookmarkChats', folderExpansionState')

(***************************************************************************)
(* initMyFolders, run by the observer when the anchor button appears.       *)
(***************************************************************************)
\* When ensureProperties throws, the exception leaves initMyFolders and the
\* observer's callback before the header is inserted and before
\* observer.disconnect(): the next mutation of the page calls it again.
InitMyFolders ==
    /\ ~injected
    /\ SessionStep
    /\ loads' = loads + 1
    /\ IF ensurePropertiesThrows(loadData(store))
       THEN NothingDone("init", EmptyStr, EmptyStr, "", EmptyStr, "none")
       ELSE /\ LET data == ensureProperties(loadData(store), clock)
               IN  /\ foldersData' = data.foldersData
                   /\ bookmarkChats' = data.bookmarkChats
            /\ rendered' =
                   renderItems(foldersData', bookmarkChats', folderExpansionState)
            /\ injected' = TRUE
            /\ itemsDisplay' = "none"
            /\ last' = Last("init", EmptyStr, EmptyStr, "", EmptyStr, "none", "none", 1)
            /\ UNCHANGED <<folderExpansionState, store>>

\* The page is reloaded: the script starts again with empty memory.
PageReload ==
    /\ injected
    /\ SessionStep
    /\ loads' = 0
    /\ foldersData' = <<>>
    /\ bookmarkChats' = <<>>
    /\ folderExpansionState' = EmptyExpansion
    /\ injected' = FALSE
    /\ itemsDisplay' = "none"
    /\ rendered' = <<>>
    /\ last' = Last("reload", EmptyStr, EmptyStr, "", EmptyStr, "none", "none", 0)
    /\ UNCHANGED store

(***************************************************************************)
(* The header's controls.                                                   *)
(***************************************************************************)
\* A createFolderButton click that marks the name expanded before it looks
\* for a folder of that name.
CreateFolderClickExpandsFirst(input, writeOk) ==
    LET sanitizedFolderName == sanitizeString(Trim(input))
    IN  /\ injected
        /\ HandlerStep
        /\ IF input = EmptyStr
           THEN NothingDone("createFolder", EmptyStr, EmptyStr, "", EmptyStr, "none")
           ELSE IF sanitizedFolderName = EmptyStr
           THEN NothingDone("createFolder", EmptyStr, EmptyStr, "", sanitizedFolderName,
                            "invalidFolderName")
           ELSE /\ folderExpansionState' =
                       ExpansionSet(folderExpansionState, sanitizedFolderName, TRUE)
                /\ IF FolderNameTaken(foldersData, sanitizedFolderName)
                   THEN /\ last' = Last("createFolder", EmptyStr, EmptyStr, "",
                                        sanitizedFolderName, "folderExists", "none", 0)
                        /\ UNCHANGED <<foldersData, bookmarkChats, store, injected,
                                       itemsDisplay, rendered>>
                   ELSE /\ Len(foldersData) < MaxFolders
                        /\ foldersData' =
                               Append(foldersData, NewFolder(sanitizedFolderName, clock))
                        /\ bookmarkChats' = bookmarkChats
                        /\ itemsDisplay' = "block"
                        /\ SaveAndRender(writeOk)
                        /\ last' = Last("createFolder", EmptyStr, EmptyStr, "",
                                        sanitizedFolderName, "none",
                                        WriteResult(writeOk), 1)
                        /\ UNCHANGED injected

\* createFolderButton click
CreateFolderClick(input, writeOk) ==
    LET sanitizedFolderName == sanitizeString(Trim(input))
    IN  /\ injected
        /\ HandlerStep
        /\ IF input = EmptyStr
           THEN NothingDone("createFolder", EmptyStr, EmptyStr, "", EmptyStr, "none")
           ELSE IF sanitizedFolderName = EmptyStr
           THEN NothingDone("createFolder", EmptyStr, EmptyStr, "", sanitizedFolderName,
                            "invalidFolderName")
           ELSE IF FolderNameTaken(foldersData, sanitizedFolderName)
           THEN NothingDone("createFolder", EmptyStr, EmptyStr, "", sanitizedFolderName,
                            "folderExists")
           ELSE /\ Len(foldersData) < MaxFolders
                /\ foldersData' = Append(foldersData, NewFolder(sanitizedFolderName, clock))
                /\ bookmarkChats' = bookmarkChats
                /\ itemsDisplay' = "block"
                /\ folderExpansionState' =
                       ExpansionSet(folderExpansionState, sanitizedFolderName, TRUE)
                /\ SaveAndRender(writeOk)
                /\ last' = Last("createFolder", EmptyStr, EmptyStr, "", sanitizedFolderName,
                                "none", WriteResult(writeOk), 1)
                /\ UNCHANGED injected

\* addBookmarkChatButton click
AddBookmarkClick(writeOk) ==
    LET chatName == IF DocumentTitle # EmptyStr THEN DocumentTitle ELSE UnnamedChat
        chatHref == locationHref
        sanitizedChatName == sanitizeString(Trim(chatName))
    IN  /\ injected
        /\ HandlerStep
        /\ IF ChatIndex(bookmarkChats, sanitizedChatName, chatHref) # 0
           THEN NothingDone("addBookmark", EmptyStr, sanitizedChatName, chatHref, EmptyStr,
                            "alreadyBookmarked")
           ELSE /\ TotalChats(foldersData, bookmarkChats) < MaxChats
                /\ bookmarkChats' =
                       Append(bookmarkChats, NewChat(sanitizedChatName, chatHref, clock))
                /\ foldersData' = foldersData
                /\ itemsDisplay' = "block"
                /\ folderExpansionState' = folderExpansionState
                /\ SaveAndRender(writeOk)
                /\ last' = Last("addBookmark", EmptyStr, sanitizedChatName, chatHref,
                                EmptyStr, "none", WriteResult(writeOk), 1)
                /\ UNCHANGED injected

\* mainHeader click (outside its buttons): shows or hides the items.
MainHeaderClick ==
    /\ injected
    /\ HandlerStep
    /\ itemsDisplay' = IF itemsDisplay = "none" THEN "block" ELSE "none"
    /\ last' = Last("mainHeader", EmptyStr, EmptyStr, "", EmptyStr, "none", "none", 0)
    /\ UNCHANGED <<foldersData, bookmarkChats, folderExpansionState, store,
                   injected, rendered>>

(***************************************************************************)
(* The controls of a rendered folder.  A control can be clicked when it is  *)
(* displayed; its handler works on the values captured when it was built.   *)
(***************************************************************************)
FolderNodes ==
    IF itemsDisplay = "block"
    THEN {rendered[i] : i \in {j \in DOMAIN rendered : rendered[j].kind = "folder"}}
    ELSE {}

\* A folderButton click that opens the folder whatever its state.
FolderButtonClickOpens(node) ==
    LET currentFolderName == node.folder
    IN  /\ node \in FolderNodes
        /\ HandlerStep
        /\ folderExpansionState' =
               ExpansionSet(folderExpansionState, currentFolderName, TRUE)
        /\ rendered' = renderItems(foldersData, bookmarkChats, folderExpansionState')
        /\ last' = Last("toggleFolder", currentFolderName, EmptyStr, "", EmptyStr,
                        "none", "none", 1)
        /\ UNCHANGED <<foldersData, bookmarkChats, store, injected, itemsDisplay>>

\* folderButton click: toggle folder expansion.
FolderButtonClick(node) ==
    LET currentFolderName == node.folder
    IN  /\ node \in FolderNodes
        /\ HandlerStep
        /\ folderExpansionState' =
               ExpansionSet(folderExpansionState, currentFolderName,
                            ~IsExpanded(folderExpansionState, currentFolderName))
        /\ rendered' = renderItems(foldersData, bookmarkChats, folderExpansionState')
        /\ last' = Last("toggleFolder", currentFolderName, EmptyStr, "", EmptyStr,
                        "none", "none", 1)
        /\ UNCHANGED <<foldersData, bookmarkChats, store, injected, itemsDisplay>>

\* folderButton dblclick: rename the folder.
FolderButtonDblClick(node, input, writeOk) ==
    LET currentFolderName == node.folder
        sanitizedNewName == sanitizeString(Trim(input))
        folderIndex == FolderIndex(foldersData, currentFolderName)
    IN  /\ node \in FolderNodes
        /\ HandlerStep
        /\ IF input = EmptyStr
           THEN NothingDone("renameFolder", currentFolderName, EmptyStr, "", EmptyStr,
                            "none")
           ELSE IF sanitizedNewName = EmptyStr
           THEN NothingDone("renameFolder", currentFolderName, EmptyStr, "",
                            sanitizedNewName, "invalidFolderName")
           ELSE IF FolderNameTaken(foldersData, sanitizedNewName)
           THEN NothingDone("renameFolder", currentFolderName, EmptyStr, "",
                            sanitizedNewName, "folderExists")
           ELSE IF folderIndex = 0
           THEN NothingDone("renameFolder", currentFolderName, EmptyStr, "",
                            sanitizedNewName, "none")
           ELSE /\ foldersData' =
                       [foldersData EXCEPT ![folderIndex].name = sanitizedNewName]
                /\ bookmarkChats' = bookmarkChats
                /\ folderExpansionState' =
                       MoveExpansion(folderExpansionState, currentFolderName,
                                     sanitizedNewName)
                /\ SaveAndRender(writeOk)
                /\ last' = Last("renameFolder", currentFolderName, EmptyStr, "",
                                sanitizedNewName, "none", WriteResult(writeOk), 1)
                /\ UNCHANGED <<injected, itemsDisplay>>

\* addChatButton click: add the current page to the folder.
AddChatClick(node, writeOk) ==
    LET currentFolderName == node.folder
        chatName == IF DocumentTitle # EmptyStr THEN DocumentTitle ELSE UnnamedChat
        chatHref == locationHref
        sanitizedChatName == sanitizeString(Trim(chatName))
        folderIndex == FolderIndex(foldersData, currentFolderName)
    IN  /\ node \in FolderNodes
        /\ HandlerStep
        /\ IF folderIndex = 0
           THEN NothingDone("addChat", currentFolderName, sanitizedChatName, chatHref,
                            EmptyStr, "none")
           ELSE IF ChatIndex(foldersData[folderIndex].chats, sanitizedChatName, chatHref) # 0
           THEN NothingDone("addChat", currentFolderName, sanitizedChatName, chatHref,
                            EmptyStr, "alreadyInFolder")
           ELSE /\ TotalChats(foldersData, bookmarkChats) < MaxChats
                /\ foldersData' =
                       [foldersData EXCEPT ![folderIndex].chats =
                           Append(@, NewChat(sanitizedChatName, chatHref, clock))]
                /\ bookmarkChats' = bookmarkChats
                /\ folderExpansionState' =
                       ExpansionSet(folderExpansionState, currentFolderName, TRUE)
                /\ SaveAndRender(writeOk)
                /\ last' = Last("addChat", currentFolderName, sanitizedChatName, chatHref,
                                EmptyStr, "none", WriteResult(writeOk), 1)
                /\ UNCHANGED <<injected, itemsDisplay>>

\* A pinFolderButton click that keeps the folder expanded, as the handlers of
\* the chat rows do.
PinFolderClickExpands(node, writeOk) ==
    LET currentFolderName == node.folder
        folderIndex == FolderIndex(foldersData, currentFolderName)
    IN  /\ node \in FolderNodes
        /\ HandlerStep
        /\ IF folderIndex = 0
           THEN NothingDone("pinFolder", currentFolderName, EmptyStr, "", EmptyStr, "none")
           ELSE /\ foldersData' =
                       [foldersData EXCEPT ![folderIndex] =
                           IF ~@.pinned
                           THEN [@ EXCEPT !.pinned = TRUE, !.pinnedAt = clock]
                           ELSE [@ EXCEPT !.pinned = FALSE, !.pinnedAt = Null]]
                /\ bookmarkChats' = bookmarkChats
                /\ folderExpansionState' =
                       ExpansionSet(folderExpansionState, currentFolderName, TRUE)
                /\ SaveAndRender(writeOk)
                /\ last' = Last("pinFolder", currentFolderName, EmptyStr, "", EmptyStr,
                                "none", WriteResult(writeOk), 1)
                /\ UNCHANGED <<injected, itemsDisplay>>

\* pinFolderButton click
PinFolderClick(node, writeOk) ==
    LET currentFolderName == node.folder
        folderIndex == FolderIndex(foldersData, currentFolderName)
    IN  /\ node \in FolderNodes
        /\ HandlerStep
        /\ IF folderIndex = 0
           THEN NothingDone("pinFolder", currentFolderName, EmptyStr, "", EmptyStr, "none")
           ELSE /\ foldersData' =
                       [foldersData EXCEPT ![folderIndex] =
                           IF ~@.pinned
                           THEN [@ EXCEPT !.pinned = TRUE, !.pinnedAt = clock]
                           ELSE [@ EXCEPT !.pinned = FALSE, !.pinnedAt = Null]]
                /\ bookmarkChats' = bookmarkChats
                /\ folderExpansionState' = folderExpansionState
                /\ SaveAndRender(writeOk)
                /\ last' = Last("pinFolder", currentFolderName, EmptyStr, "", EmptyStr,
                                "none", WriteResult(writeOk), 1)
                /\ UNCHANGED <<injected, itemsDisplay>>

\* deleteButton click; `confirmed' is the user's answer to confirm().
DeleteFolderClick(node, confirmed, writeOk) ==
    LET currentFolderName == node.folder
        folderIndex == FolderIndex(foldersData, currentFolderName)
    IN  /\ node \in FolderNodes
        /\ HandlerStep
        /\ IF ~confirmed \/ folderIndex = 0
           THEN NothingDone("deleteFolder", currentFolderName, EmptyStr, "", EmptyStr,
                            "none")
           ELSE /\ folderExpansionState' =
                       ExpansionDelete(folderExpansionState, currentFolderName)
                /\ foldersData' = Splice(foldersData, folderIndex)
                /\ bookmarkChats' = bookmarkChats
                /\ SaveAndRender(writeOk)
                /\ last' = Last("deleteFolder", currentFolderName, EmptyStr, "", EmptyStr,
                                "none", WriteResult(writeOk), 1)
                /\ UNCHANGED <<injected, itemsDisplay>>

(***************************************************************************)
(* The controls of a rendered chat row (in a folder or among the bookmarks).*)
(***************************************************************************)
ChatRows ==
    IF itemsDisplay = "block"
    THEN {rendered[i] : i \in {j \in DOMAIN rendered : rendered[j].kind = "chat"}}
         \cup UNION {{rendered[i].rows[k] :
                         k \in {m \in DOMAIN rendered[i].rows :
                                   rendered[i].rows[m].kind = "chat"}} :
                     i \in {j \in DOMAIN rendered :
                               rendered[j].kind = "folder" /\ rendered[j].expanded}}
    ELSE {}

\* A renameButton click on records shared between the collections: the new
\* name shows in every collection that holds a chat of that (name, href).
RenameChatClickShared(row, input, writeOk) ==
    LET chatName == row.name
        chatHref == row.href
        currentFolderName == row.folder
        sanitizedNewName == sanitizeString(Trim(input))
        folderIndex == FolderIndex(foldersData, currentFolderName)
        chatIndex ==
            IF row.bookmark THEN ChatIndex(bookmarkChats, chatName, chatHref)
            ELSE IF folderIndex = 0 THEN 0
            ELSE ChatIndex(foldersData[folderIndex].chats, chatName, chatHref)
        renamed(chats) ==
            [k \in DOMAIN chats |->
                IF chats[k].name = chatName /\ chats[k].href = chatHref
                THEN [chats[k] EXCEPT !.name = sanitizedNewName]
                ELSE chats[k]]
    IN  /\ row \in ChatRows
        /\ HandlerStep
        /\ IF input = EmptyStr
           THEN NothingDone("renameChat", currentFolderName, chatName, chatHref,
                            EmptyStr, "none")
           ELSE IF sanitizedNewName = EmptyStr
           THEN NothingDone("renameChat", currentFolderName, chatName, chatHref,
                            sanitizedNewName, "invalidChatName")
           ELSE IF chatIndex = 0
           THEN NothingDone("renameChat", currentFolderName, chatName, chatHref,
                            sanitizedNewName, "none")
           ELSE /\ bookmarkChats' = renamed(bookmarkChats)
                /\ foldersData' =
                       [i \in DOMAIN foldersData |->
                           [foldersData[i] EXCEPT !.chats = renamed(@)]]
                /\ folderExpansionState' =
                       IF row.bookmark THEN folderExpansionState
                       ELSE ExpansionSet(folderExpansionState, currentFolderName, TRUE)
                /\ SaveAndRender(writeOk)
                /\ last' = Last("renameChat", currentFolderName, chatName, chatHref,
                                sanitizedNewName, "none", WriteResult(writeOk), 1)
                /\ UNCHANGED <<injected, itemsDisplay>>

\* renameButton click
RenameChatClick(row, input, writeOk) ==
    LET chatName == row.name
        chatHref == row.href
        currentFolderName == row.folder
        sanitizedNewName == sanitizeString(Trim(input))
        folderIndex == FolderIndex(foldersData, currentFolderName)
        chatIndex ==
            IF row.bookmark THEN ChatIndex(bookmarkChats, chatName, chatHref)
            ELSE IF folderIndex = 0 THEN 0
            ELSE ChatIndex(foldersData[folderIndex].chats, chatName, chatHref)
    IN  /\ row \in ChatRows
        /\ HandlerStep
        /\ IF input = EmptyStr
           THEN NothingDone("renameChat", currentFolderName, chatName, chatHref,
                            EmptyStr, "none")
           ELSE IF sanitizedNewName = EmptyStr
           THEN NothingDone("renameChat", currentFolderName, chatName, chatHref,
                            sanitizedNewName, "invalidChatName")
           ELSE IF chatIndex = 0
           THEN NothingDone("renameChat", currentFolderName, chatName, chatHref,
                            sanitizedNewName, "none")
           ELSE /\ IF row.bookmark
                   THEN /\ bookmarkChats' =
                               [bookmarkChats EXCEPT ![chatIndex].name = sanitizedNewName]
                        /\ foldersData' = foldersData
                        /\ folderExpansionState' = folderExpansionState
                   ELSE /\ foldersData' =
                               [foldersData EXCEPT
                                   ![folderIndex].chats[chatIndex].name = sanitizedNewName]
                        /\ bookmarkChats' = bookmarkChats
                        /\ folderExpansionState' =
                               ExpansionSet(folderExpansionState, currentFolderName, TRUE)
                /\ SaveAndRender(writeOk)
                /\ last' = Last("renameChat", currentFolderName, chatName, chatHref,
                                sanitizedNewName, "none", WriteResult(writeOk), 1)
                /\ UNCHANGED <<injected, itemsDisplay>>

\* pinChatButton click
PinChatClick(row, writeOk) ==
    LET chatName == row.name
        chatHref == row.href
        currentFolderName == row.folder
        folderIndex == FolderIndex(foldersData, currentFolderName)
        chatIndex ==
            IF row.bookmark THEN ChatIndex(bookmarkChats, chatName, chatHref)
            ELSE IF folderIndex = 0 THEN 0
            ELSE ChatIndex(foldersData[folderIndex].chats, chatName, chatHref)
    IN  /\ row \in ChatRows
        /\ HandlerStep
        /\ IF chatIndex = 0
           THEN NothingDone("pinChat", currentFolderName, chatName, chatHref, EmptyStr,
                            "none")
           ELSE /\ IF row.bookmark
                   THEN /\ bookmarkChats' =
                               [bookmarkChats EXCEPT ![chatIndex] = togglePin(@, clock)]
                        /\ foldersData' = foldersData
                        /\ folderExpansionState' = folderExpansionState
                   ELSE /\ foldersData' =
                               [foldersData EXCEPT
                                   ![folderIndex].chats[chatIndex] = togglePin(@, clock)]
                        /\ bookmarkChats' = bookmarkChats
                        /\ folderExpansionState' =
                               ExpansionSet(folderExpansionState, currentFolderName, TRUE)
                /\ SaveAndRender(writeOk)
                /\ last' = Last("pinChat", currentFolderName, chatName, chatHref, EmptyStr,
                                "none", WriteResult(writeOk), 1)
                /\ UNCHANGED <<injected, itemsDisplay>>

\* A deleteChatButton click that marks currentFolderName expanded for the
\* rows of the bookmarks too.
DeleteChatClickExpandsAlways(row, writeOk) ==
    LET chatName == row.name
        chatHref == row.href
        currentFolderName == row.folder
        folderIndex == FolderIndex(foldersData, currentFolderName)
    IN  /\ row \in ChatRows
        /\ HandlerStep
        /\ IF ~row.bookmark /\ folderIndex = 0
           THEN NothingDone("deleteChat", currentFolderName, chatName, chatHref, EmptyStr,
                            "none")
           ELSE /\ IF row.bookmark
                   THEN /\ bookmarkChats' = FilterOut(bookmarkChats, chatName, chatHref)
                        /\ foldersData' = foldersData
                   ELSE /\ foldersData' =
                               [foldersData EXCEPT ![folderIndex].chats =
                                   FilterOut(@, chatName, chatHref)]
                        /\ bookmarkChats' = bookmarkChats
                /\ folderExpansionState' =
                       ExpansionSet(folderExpansionState, currentFolderName, TRUE)
                /\ SaveAndRender(writeOk)
                /\ last' = Last("deleteChat", currentFolderName, chatName, chatHref,
                                EmptyStr, "none", WriteResult(writeOk), 1)
                /\ UNCHANGED <<injected, itemsDisplay>>

\* deleteChatButton click
DeleteChatClick(row, writeOk) ==
    LET chatName == row.name
        chatHref == row.href
        currentFolderName == row.folder
        folderIndex == FolderIndex(foldersData, currentFolderName)
    IN  /\ row \in ChatRows
        /\ HandlerStep
        /\ IF ~row.bookmark /\ folderIndex = 0
           THEN NothingDone("deleteChat", currentFolderName, chatName, chatHref, EmptyStr,
                            "none")
           ELSE /\ IF row.bookmark
                   THEN /\ bookmarkChats' = FilterOut(bookmarkChats, chatName, chatHref)
                        /\ foldersData' = foldersData
                        /\ folderExpansionState' = folderExpansionState
                   ELSE /\ foldersData' =
                               [foldersData EXCEPT ![folderIndex].chats =
                                   FilterOut(@, chatName, chatHref)]
                        /\ bookmarkChats' = bookmarkChats
                        /\ folderExpansionState' =
                               ExpansionSet(folderExpansionState, currentFolderName, TRUE)
                /\ SaveAndRender(writeOk)
                /\ last' = Last("deleteChat", currentFolderName, chatName, chatHref,
                                EmptyStr, "none", WriteResult(writeOk), 1)
                /\ UNCHANGED <<injected, itemsDisplay>>

(***************************************************************************)
(* The title observer and updateChatNameIfExists.                           *)
(***************************************************************************)
\* A bookmarks loop that does not compare the href.
updateBookmarksAnyHref(bookmarks, href, newName) ==
    [i \in DOMAIN bookmarks |->
        IF bookmarks[i].name # newName
        THEN [bookmarks[i] EXCEPT !.name = newName]
        ELSE bookmarks[i]]

updateBookmarks(bookmarks, href, newName) ==
    [i \in DOMAIN bookmarks |->
        IF bookmarks[i].href = href /\ bookmarks[i].name # newName
        THEN [bookmarks[i] EXCEPT !.name = newName]
        ELSE bookmarks[i]]

updateFolder(folder, href, newName) ==
    LET chatIndex == HrefIndex(folder.chats, href)
    IN  IF chatIndex # 0 /\ folder.chats[chatIndex].name # newName
        THEN [folder EXCEPT !.chats[chatIndex].name = newName]
        ELSE folder

updateFolders(folders, href, newName) ==
    [i \in DOMAIN folders |-> updateFolder(folders[i], href, newName)]

\* A title observer that saves and renders whether or not a name changed.
TitleMutationAlwaysSaves(newTitle, writeOk) ==
    LET href == locationHref
        newFolders == updateFolders(foldersData, href, newTitle)
        newBookmarks == updateBookmarks(bookmarkChats, href, newTitle)
    IN  /\ CountStep
        /\ docTitle' = newTitle
        /\ UNCHANGED <<locationHref, clock, sortVars, loads>>
        /\ IF ~injected
           THEN NothingDone("hostTitle", EmptyStr, newTitle, href, EmptyStr, "none")
           ELSE /\ foldersData' = newFolders
                /\ bookmarkChats' = newBookmarks
                /\ folderExpansionState' = folderExpansionState
                /\ SaveAndRender(writeOk)
                /\ last' = Last("titleChange", EmptyStr, newTitle, href, EmptyStr,
                                "none", WriteResult(writeOk), 1)
                /\ UNCHANGED <<injected, itemsDisplay>>

\* The host page writes `newTitle' into <title>; once the script is
\* initialized its titleObserver calls updateChatNameIfExists.
TitleMutation(newTitle, writeOk) ==
    LET href == locationHref
        newFolders == updateFolders(foldersData, href, newTitle)
        newBookmarks == updateBookmarks(bookmarkChats, href, newTitle)
        updated == newFolders # foldersData \/ newBookmarks # bookmarkChats
    IN  /\ CountStep
        /\ docTitle' = newTitle
        /\ UNCHANGED <<locationHref, clock, sortVars, loads>>
        /\ IF ~injected
           THEN NothingDone("hostTitle", EmptyStr, newTitle, href, EmptyStr, "none")
           ELSE IF ~updated
           THEN NothingDone("titleChange", EmptyStr, newTitle, href, EmptyStr, "none")
           ELSE /\ foldersData' = newFolders
                /\ bookmarkChats' = newBookmarks
                /\ folderExpansionState' = folderExpansionState
                /\ SaveAndRender(writeOk)
                /\ last' = Last("titleChange", EmptyStr, newTitle, href, EmptyStr,
                                "none", WriteResult(writeOk), 1)
                /\ UNCHANGED <<injected, itemsDisplay>>

(***************************************************************************)
(* The options menu.                                                        *)
(***************************************************************************)
\* The name exportItem gives the download: 'my_folders_data.json'.
DownloadName ==
    <<"m", "y", "_", "f", "o", "l", "d", "e", "r", "s", "_", "d", "a", "t", "a",
      ".", "j", "s", "o", "n">>

\* exportItem: JSON.stringify({ foldersData, bookmarkChats }, null, 2), offered
\* as a download; the indentation does not change what the text parses to.
exportItem(folders, bookmarks) ==
    JSONstringify([foldersData |-> folders, bookmarkChats |-> bookmarks])

\* A document exported in another session: folder B with the chat (X, h2),
\* and the bookmark (T, h2).
BackupData ==
    [foldersData |-> <<[NewFolder(NameB, 1) EXCEPT !.chats = <<NewChat(NameX, "h2", 1)>>]>>,
     bookmarkChats |-> <<NewChat(TitleT, "h2", 1)>>]

BackupFile ==
    [name |-> DownloadName,
     text |-> exportItem(BackupData.foldersData, BackupData.bookmarkChats)]

\* A file that is not JSON.
BrokenFile == [name |-> <<"b", "a", "d">>, text |-> NotJSON]

\* The files the user picks in the file chooser.
ImportFiles == {BackupFile, BrokenFile}

\* importItem: the change handler of the file input creates a FileReader and
\* assigns reader.onload, then opens the file chooser again; it never calls
\* reader.readAsText, so reader.result stays null and no load event comes.
ImportFileChosen(file) ==
    /\ injected
    /\ HandlerStep
    /\ NothingDone("importChange", EmptyStr, file.name, "", EmptyStr, "none")

\* What ensureProperties has done when it throws at the first folder without
\* chats: the folders before it are complete, that folder has its own three
\* properties, whatever follows is as it was parsed.
ensurePropertiesPartial(data, t) ==
    LET bad == FirstIndex({i \in DOMAIN data.foldersData :
                              "chats" \in data.foldersData[i].undef})
    IN  [foldersData |->
            [i \in DOMAIN data.foldersData |->
                IF i < bad
                THEN [ensureItem(data.foldersData[i], t) EXCEPT !.chats = ensureChats(@, t)]
                ELSE IF i = bad THEN ensureItem(data.foldersData[i], t)
                ELSE data.foldersData[i]],
         bookmarkChats |-> data.bookmarkChats]

\* A reader.onload that rebinds foldersData and forgets bookmarkChats.
readerOnloadKeepsBookmarks(result, folders, bookmarks, item, exp, tree, t, writeOk) ==
    LET kept == [foldersData |-> folders, bookmarkChats |-> bookmarks, store |-> item,
                 rendered |-> tree, write |-> "none", renders |-> 0,
                 notice |-> "none"]
        importedData == JSONparse(result)
        data == ensureProperties(importedData, t)
    IN  IF ParseThrows(result)
        THEN [kept EXCEPT !.notice = "importFailed"]
        ELSE IF ~HasArrays(importedData)
        THEN [kept EXCEPT !.notice = "invalidFormat"]
        ELSE IF ensurePropertiesThrows(importedData)
        THEN [kept EXCEPT
                 !.foldersData = ensurePropertiesPartial(importedData, t).foldersData,
                 !.notice = "importFailed"]
        ELSE [foldersData |-> data.foldersData,
              bookmarkChats |-> bookmarks,
              store |-> saveData(item, data, writeOk),
              rendered |-> renderItems(data.foldersData, bookmarks, exp),
              write |-> WriteResult(writeOk), renders |-> 1, notice |-> "imported"]

\* reader.onload: what it leaves in the document, the store and the tree, and
\* the alert it shows.
readerOnload(result, folders, bookmarks, item, exp, tree, t, writeOk) ==
    LET kept == [foldersData |-> folders, bookmarkChats |-> bookmarks, store |-> item,
                 rendered |-> tree, write |-> "none", renders |-> 0,
                 notice |-> "none"]
        importedData == JSONparse(result)
        data == ensureProperties(importedData, t)
    IN  IF ParseThrows(result)
        THEN [kept EXCEPT !.notice = "importFailed"]
        ELSE IF ~HasArrays(importedData)
        THEN [kept EXCEPT !.notice = "invalidFormat"]
        ELSE IF ensurePropertiesThrows(importedData)
        THEN [kept EXCEPT
                 !.foldersData = ensurePropertiesPartial(importedData, t).foldersData,
                 !.bookmarkChats = importedData.bookmarkChats,
                 !.notice = "importFailed"]
        ELSE [foldersData |-> data.foldersData,
              bookmarkChats |-> data.bookmarkChats,
              store |-> saveData(item, data, writeOk),
              rendered |-> renderItems(data.foldersData, data.bookmarkChats, exp),
              write |-> WriteResult(writeOk), renders |-> 1, notice |-> "imported"]

\* The load event of the reader, which comes when a read has ended.  No read
\* is ever started by the script, so this step is no part of Next; the import
\* harness below takes it with a reader that has been given its result.
ReaderOnload(writeOk) ==
    LET done == readerOnload(readerResult, foldersData, bookmarkChats, store,
                             folderExpansionState, rendered, clock, writeOk)
    IN  /\ readerResult # NoResult
        /\ injected
        /\ HandlerStep
        /\ foldersData' = done.foldersData
        /\ bookmarkChats' = done.bookmarkChats
        /\ store' = done.store
        /\ rendered' = done.rendered
        /\ last' = Last("importLoad", EmptyStr, EmptyStr, "", EmptyStr, done.notice,
                        done.write, done.renders)
        /\ UNCHANGED <<folderExpansionState, injected, itemsDisplay>>

(***************************************************************************)
(* The environment.                                                         *)
(***************************************************************************)
\* The host page moves to another conversation.
Navigate(href) ==
    /\ CountStep
    /\ href # locationHref
    /\ locationHref' = href
    /\ last' = Last("navigate", EmptyStr, EmptyStr, href, EmptyStr, "none", "none", 0)
    /\ UNCHANGED <<foldersData, bookmarkChats, folderExpansionState, store, injected,
                   itemsDisplay, rendered, docTitle, clock, sortVars, loads>>

\* Time passes.
Tick ==
    /\ CountStep
    /\ clock < MaxTime
    /\ clock' = clock + 1
    /\ last' = Last("tick", EmptyStr, EmptyStr, "", EmptyStr, "none", "none", 0)
    /\ UNCHANGED <<foldersData, bookmarkChats, folderExpansionState, store, injected,
                   itemsDisplay, rendered, docTitle, locationHref, sortVars, loads>>

(***************************************************************************)
(* A second tab of the same origin: the script runs in it with a memory of  *)
(* its own and the same localStorage.                                        *)
(***************************************************************************)
\* The memory of the tab the user is in.
ThisTab ==
    [foldersData |-> foldersData, bookmarkChats |-> bookmarkChats,
     folderExpansionState |-> folderExpansionState, injected |-> injected,
     itemsDisplay |-> itemsDisplay, rendered |-> rendered, docTitle |-> docTitle,
     locationHref |-> locationHref, readerResult |-> readerResult, loads |-> loads,
     last |-> last]

\* The user goes to the other tab: its script is the one whose handlers run
\* from now on; localStorage and the time are those of both.
SwitchTab ==
    /\ otherTab' = ThisTab
    /\ foldersData' = otherTab.foldersData
    /\ bookmarkChats' = otherTab.bookmarkChats
    /\ folderExpansionState' = otherTab.folderExpansionState
    /\ injected' = otherTab.injected
    /\ itemsDisplay' = otherTab.itemsDisplay
    /\ rendered' = otherTab.rendered
    /\ docTitle' = otherTab.docTitle
    /\ locationHref' = otherTab.locationHref
    /\ readerResult' = otherTab.readerResult
    /\ loads' = otherTab.loads
    /\ last' = Last("switchTab", EmptyStr, EmptyStr, "", EmptyStr, "none", "none", 0)
    /\ UNCHANGED <<store, clock, steps, sortIn, sortOut, previous, v19>>

Next ==
    \/ InitMyFolders
    \/ PageReload
    \/ MainHeaderClick
    \/ \E file \in ImportFiles : ImportFileChosen(file)
    \/ \E input \in FolderPrompts, writeOk \in BOOLEAN : CreateFolderClick(input, writeOk)
    \/ \E writeOk \in BOOLEAN : AddBookmarkClick(writeOk)
    \/ \E node \in FolderNodes : FolderButtonClick(node)
    \/ \E node \in FolderNodes, input \in FolderPrompts, writeOk \in BOOLEAN :
          FolderButtonDblClick(node, input, writeOk)
    \/ \E node \in FolderNodes, writeOk \in BOOLEAN : AddChatClick(node, writeOk)
    \/ \E node \in FolderNodes, writeOk \in BOOLEAN : PinFolderClick(node, writeOk)
    \/ \E node \in FolderNodes, confirmed \in BOOLEAN, writeOk \in BOOLEAN :
          DeleteFolderClick(node, confirmed, writeOk)
    \/ \E row \in ChatRows, input \in ChatPrompts, writeOk \in BOOLEAN :
          RenameChatClick(row, input, writeOk)
    \/ \E row \in ChatRows, writeOk \in BOOLEAN : PinChatClick(row, writeOk)
    \/ \E row \in ChatRows, writeOk \in BOOLEAN : DeleteChatClick(row, writeOk)
    \/ \E newTitle \in Titles, writeOk \in BOOLEAN : TitleMutation(newTitle, writeOk)
    \/ \E href \in Hrefs : Navigate(href)
    \/ Tick

Spec == Init /\ [][Next]_vars

\* What localStorage holds when the session of the pin controls begins.
PinStores == {JSONstringify(LegacyData), JSONstringify(SavedData),
              JSONstringify(CopiesData)}

\* A session that has loaded the document and whose list the user has opened;
\* from here on the document before each step is recorded.
PinInit ==
    /\ store \in PinStores
    /\ clock = 1
    /\ foldersData = ensureProperties(loadData(store), clock).foldersData
    /\ bookmarkChats = ensureProperties(loadData(store), clock).bookmarkChats
    /\ folderExpansionState = EmptyExpansion
    /\ injected = TRUE
    /\ itemsDisplay = "block"
    /\ rendered = renderItems(foldersData, bookmarkChats, folderExpansionState)
    /\ docTitle = TitleT
    /\ locationHref = "h1"
    /\ last = Last("init", EmptyStr, EmptyStr, "", EmptyStr, "none", "none", 1)
    /\ steps = 0
    /\ sortIn = <<>>
    /\ sortOut = <<>>
    /\ readerResult = NoResult
    /\ loads = 1
    /\ otherTab = FreshTab
    /\ previous = [data |-> Data, rendered |-> rendered]
    /\ v19 = NotRunning

\* The user opens folders and uses the pin controls while time passes.
PinNext ==
    \/ \E node \in FolderNodes : FolderButtonClick(node)
    \/ \E node \in FolderNodes, writeOk \in BOOLEAN : PinFolderClick(node, writeOk)
    \/ \E row \in ChatRows, writeOk \in BOOLEAN : PinChatClick(row, writeOk)
    \/ Tick

PinSpec == PinInit /\ [][PinNext]_vars

\* What localStorage holds when the two tabs are opened.
TabsStores == {NoItem, JSONstringify(SavedData)}

\* The memory of a tab whose script has loaded `item' and whose list the user
\* has opened.
LoadedTab(item, t) ==
    LET data == ensureProperties(loadData(item), t)
    IN  [FreshTab EXCEPT
            !.foldersData = data.foldersData,
            !.bookmarkChats = data.bookmarkChats,
            !.injected = TRUE,
            !.itemsDisplay = "block",
            !.rendered = renderItems(data.foldersData, data.bookmarkChats,
                                     EmptyExpansion),
            !.loads = 1,
            !.last = Last("init", EmptyStr, EmptyStr, "", EmptyStr, "none", "none", 1)]

\* Two tabs have been opened and each has loaded the document: the two runs
\* of initMyFolders are the steps taken so far.
TabsInit ==
    /\ store \in TabsStores
    /\ clock = 1
    /\ otherTab = LoadedTab(store, clock)
    /\ foldersData = otherTab.foldersData
    /\ bookmarkChats = otherTab.bookmarkChats
    /\ folderExpansionState = otherTab.folderExpansionState
    /\ injected = otherTab.injected
    /\ itemsDisplay = otherTab.itemsDisplay
    /\ rendered = otherTab.rendered
    /\ docTitle = otherTab.docTitle
    /\ locationHref = otherTab.locationHref
    /\ readerResult = otherTab.readerResult
    /\ loads = otherTab.loads
    /\ last = otherTab.last
    /\ steps = 2
    /\ sortIn = <<>>
    /\ sortOut = <<>>
    /\ previous = NoRecord
    /\ v19 = NotRunning

TabsNext == Next \/ SwitchTab

TabsSpec == TabsInit /\ [][TabsNext]_vars

(***************************************************************************)
(* A harness for the ordering alone: items.slice().sort(sortItems) applied  *)
(* to every sequence of at most MaxSortLen of the items below.              *)
(***************************************************************************)
SortItem(name, pinned, pinnedAt, creationIndex) ==
    [name |-> name, href |-> "h1", pinned |-> pinned, pinnedAt |-> pinnedAt,
     creationIndex |-> creationIndex, undef |-> NoUndef]

Pinned100 == SortItem(NameA, TRUE, 100, 5)
Pinned50 == SortItem(NameA, TRUE, 50, 10)
Unpinned10 == SortItem(NameA, FALSE, Null, 10)
Unpinned5 == SortItem(NameA, FALSE, Null, 5)

SortItems ==
    {Pinned100, Pinned50, Unpinned10, Unpinned5,
     SortItem(NameB, TRUE, 50, 5),       \* pinned at the same time as Pinned50
     SortItem(NameB, FALSE, Null, 5),    \* created at the same time as Unpinned5
     SortItem(NameX, TRUE, Null, 5)}     \* pinned, pinnedAt defaulted to null

SortInputs == UNION {[1..n -> SortItems] : n \in 0..MaxSortLen}

SortInit ==
    /\ foldersData = <<>>
    /\ bookmarkChats = <<>>
    /\ folderExpansionState = EmptyExpansion
    /\ store = NoItem
    /\ injected = FALSE
    /\ itemsDisplay = "none"
    /\ rendered = <<>>
    /\ docTitle = TitleT
    /\ locationHref = "h1"
    /\ clock = 1
    /\ last = Last("start", EmptyStr, EmptyStr, "", EmptyStr, "none", "none", 0)
    /\ steps = 0
    /\ sortIn \in SortInputs
    /\ sortOut = <<>>
    /\ readerResult = NoResult
    /\ loads = 0
    /\ otherTab = FreshTab
    /\ previous = NoRecord
    /\ v19 = NotRunning

SortApply ==
    /\ last.op = "start"
    /\ sortOut' = SliceSort(sortIn)
    /\ last' = Last("sort", EmptyStr, EmptyStr, "", EmptyStr, "none", "none", 0)
    /\ UNCHANGED <<foldersData, bookmarkChats, folderExpansionState, store, injected,
                   itemsDisplay, rendered, docTitle, locationHref, clock, steps, sortIn,
                   readerResult, loads, otherTab, previous, v19>>

SortNext == SortApply

SortSpec == SortInit /\ [][SortNext]_vars

(***************************************************************************)
(* Properties.                                                              *)
(***************************************************************************)
AllChatLists(data) ==
    {data.bookmarkChats} \cup
    {data.foldersData[i].chats : i \in DOMAIN data.foldersData}

AllItems(data) ==
    {data.foldersData[i] : i \in DOMAIN data.foldersData} \cup
    UNION {{chats[k] : k \in DOMAIN chats} : chats \in AllChatLists(data)}

\* What a page load at time t makes of the store.
Reloaded(item, t) == ensureProperties(loadData(item), t)

NamesUnique(folders) ==
    \A i, j \in DOMAIN folders : i # j => folders[i].name # folders[j].name

\* C1: in every reachable state no two folders of the document, in memory
\* or in the store, have the same name.
C1_FolderNamesUnique ==
    /\ NamesUnique(foldersData)
    /\ NamesUnique(loadData(store).foldersData)

\* C1 witness: two folders exist and the creation of a third one under a
\* name in use has just been refused.
C1_Witness ==
    /\ Len(foldersData) = 2
    /\ last.op = "createFolder"
    /\ last.notice = "folderExists"

IdentityUnique(chats) ==
    \A i, j \in DOMAIN chats :
        i # j => chats[i].name # chats[j].name \/ chats[i].href # chats[j].href

\* C2: in every reachable state no collection (the chats of a folder, the
\* bookmarks) holds two chat records with the same (name, href).
C2_ChatIdentityUnique ==
    \A chats \in AllChatLists(Data) : IdentityUnique(chats)

\* C3: a step that changes the document and whose write did not fail leaves
\* in the store a text from which a page load, at any time, rebuilds the
\* document of memory.
C3_StoreEqualsDocument ==
    [][(dataVars' # dataVars /\ last'.op \notin {"init", "reload"}
            /\ last'.write # "failed")
        => /\ store'.kind = "json"
           /\ \A t \in 1..MaxTime : Reloaded(store', t) = Data']_vars

\* C3 witness: a chat was renamed, the write succeeded and the store holds
\* the document of memory.
C3_Witness ==
    /\ last.op = "renameChat"
    /\ last.write = "ok"
    /\ store = JSONstringify(Data)
    /\ TotalChats(foldersData, bookmarkChats) > 0

\* The order the claim describes, between an item shown earlier (a) and one
\* shown later (b).
InClaimedOrder(a, b) ==
    /\ ~(~a.pinned /\ b.pinned)
    /\ (a.pinned /\ b.pinned /\ a.pinnedAt # Null /\ b.pinnedAt # Null)
           => a.pinnedAt <= b.pinnedAt
    /\ (~a.pinned /\ ~b.pinned) => a.creationIndex <= b.creationIndex

EqualKeys(a, b) ==
    /\ a.pinned = b.pinned
    /\ a.pinned => a.pinnedAt = b.pinnedAt
    /\ ~a.pinned => a.creationIndex = b.creationIndex

Reorderings(n) ==
    {f \in [1..n -> 1..n] : \A i, j \in 1..n : i # j => f[i] # f[j]}

\* `out' holds the items of `in', in the claimed order, items with equal keys
\* in their order in `in'.
StablySorted(in, out) ==
    /\ Len(out) = Len(in)
    /\ \E f \in Reorderings(Len(in)) :
          /\ \A i \in 1..Len(in) : out[i] = in[f[i]]
          /\ \A i, j \in 1..Len(in) :
                i < j => /\ InClaimedOrder(out[i], out[j])
                         /\ EqualKeys(out[i], out[j]) => f[i] < f[j]

\* C4: sorting puts pinned items before unpinned ones, pinned items by
\* ascending pinnedAt, unpinned items by ascending creationIndex, items with
\* equal keys in storage order; the four items of the example come out as
\* [pinnedAt 50, pinnedAt 100, creationIndex 5, creationIndex 10].
C4_SortOrder ==
    last.op = "sort" =>
        /\ StablySorted(sortIn, sortOut)
        /\ sortIn = <<Pinned100, Pinned50, Unpinned10, Unpinned5>>
               => sortOut = <<Pinned50, Pinned100, Unpinned5, Unpinned10>>

\* C4 witness: the example has been sorted.
C4_Witness ==
    /\ last.op = "sort"
    /\ sortIn = <<Pinned100, Pinned50, Unpinned10, Unpinned5>>
    /\ sortOut = <<Pinned50, Pinned100, Unpinned5, Unpinned10>>

Agrees(item) == item.pinned <=> item.pinnedAt # Null

\* The same for a stored record, read as the load reads it.
StoredAgrees(r) ==
    ("pinned" \notin r.undef /\ r.pinned)
        <=> ("pinnedAt" \notin r.undef /\ r.pinnedAt # Null)

Disagreeing(data) == {item \in AllItems(data) : ~Agrees(item)}

\* The record a pin click works on: the first folder of that name, or the
\* first chat of that (name, href) in the bookmarks or in that folder.
ClickedFolder(folders, l) ==
    folders[FirstIndex({i \in DOMAIN folders : folders[i].name = l.folder})]

ClickedChats(data, l) ==
    IF l.folder = EmptyStr THEN data.bookmarkChats
    ELSE ClickedFolder(data.foldersData, l).chats

ClickedChatIndex(data, l) ==
    FirstIndex({i \in DOMAIN ClickedChats(data, l) :
                   /\ ClickedChats(data, l)[i].name = l.name
                   /\ ClickedChats(data, l)[i].href = l.href})

Toggled(old, new, t) ==
    /\ new.pinned = ~old.pinned
    /\ new.pinnedAt = IF new.pinned THEN t ELSE Null

\* C5 (as claimed): in every reachable state every folder and every chat is
\* pinned if and only if its pinnedAt is not null.
C5_PinnedIffPinnedAt ==
    \A item \in AllItems(Data) : Agrees(item)

\* C5 (amended): a pin toggle sets pinnedAt to the current time when it pins
\* and to null when it unpins; no step but the load yields an item whose
\* pinned and pinnedAt disagree unless such an item was there before; the
\* load yields such an item exactly from a stored record whose pinned and
\* pinnedAt, with the defaults for missing ones, disagree.
C5_PinAgreement ==
    [][/\ (last'.op = "pinFolder" /\ last'.write # "none")
            => Toggled(ClickedFolder(foldersData, last'),
                       ClickedFolder(foldersData', last'), clock)
       /\ (last'.op = "pinChat" /\ last'.write # "none")
            => Toggled(ClickedChats(Data, last')[ClickedChatIndex(Data, last')],
                       ClickedChats(Data', last')[ClickedChatIndex(Data, last')],
                       clock)
       /\ last'.op # "init"
            => \A item \in Disagreeing(Data') :
                  \E old \in Disagreeing(Data) :
                      /\ old.pinned = item.pinned
                      /\ old.pinnedAt = item.pinnedAt
                      /\ old.creationIndex = item.creationIndex
       /\ last'.op = "init"
            => LET stored == loadData(store)
               IN  /\ \A i \in DOMAIN foldersData' :
                        /\ Agrees(foldersData'[i])
                               <=> StoredAgrees(stored.foldersData[i])
                        /\ \A k \in DOMAIN foldersData'[i].chats :
                              Agrees(foldersData'[i].chats[k])
                                  <=> StoredAgrees(stored.foldersData[i].chats[k])
                   /\ \A i \in DOMAIN bookmarkChats' :
                        Agrees(bookmarkChats'[i])
                            <=> StoredAgrees(stored.bookmarkChats[i])]_vars

\* C5 witness: a chat has just been pinned, at the current time, in a
\* document that the load filled with a pinned folder whose pinnedAt is null.
C5_Witness ==
    /\ last.op = "pinChat"
    /\ last.write = "ok"
    /\ Disagreeing(Data) # {}
    /\ \E chats \in AllChatLists(Data) :
          \E i \in DOMAIN chats : chats[i].pinned /\ chats[i].pinnedAt = clock

\* The creation indexes of a document, position by position; a chat is shown
\* with its href, which no operation changes.
ChatStamps(chats) ==
    [k \in DOMAIN chats |-> <<chats[k].href, chats[k].creationIndex>>]

FolderStamp(folder) ==
    [creationIndex |-> folder.creationIndex, chats |-> ChatStamps(folder.chats)]

Stamps(data) ==
    [foldersData |-> [i \in DOMAIN data.foldersData |-> FolderStamp(data.foldersData[i])],
     bookmarkChats |-> ChatStamps(data.bookmarkChats)]

\* `new' is `old' without some of its elements, the others in their order.
IsRest(new, old) ==
    \E keep \in SUBSET DOMAIN old :
        /\ Len(new) = Cardinality(keep)
        /\ \A i \in DOMAIN new :
              \E j \in keep :
                 /\ Cardinality({m \in keep : m <= j}) = i
                 /\ new[i] = old[j]

\* `new' is `old' with one more element at its end.
IsOneMore(new, old) ==
    /\ Len(new) = Len(old) + 1
    /\ SubSeq(new, 1, Len(old)) = old

\* The items of `old' that are still in `new' have the creation index they
\* had, whatever the step of a session did: it added an item at the end of
\* one collection, removed items of one collection, or neither.
StampsKept(old, new) ==
    \/ new = old
    \/ /\ IsOneMore(new.foldersData, old.foldersData)
       /\ new.bookmarkChats = old.bookmarkChats
    \/ /\ IsOneMore(new.bookmarkChats, old.bookmarkChats)
       /\ new.foldersData = old.foldersData
    \/ /\ IsRest(new.bookmarkChats, old.bookmarkChats)
       /\ new.foldersData = old.foldersData
    \/ /\ IsRest(new.foldersData, old.foldersData)
       /\ new.bookmarkChats = old.bookmarkChats
    \/ /\ new.bookmarkChats = old.bookmarkChats
       /\ Len(new.foldersData) = Len(old.foldersData)
       /\ \E i \in DOMAIN old.foldersData :
             /\ \A j \in DOMAIN old.foldersData \ {i} :
                   new.foldersData[j] = old.foldersData[j]
             /\ new.foldersData[i].creationIndex = old.foldersData[i].creationIndex
             /\ \/ IsOneMore(new.foldersData[i].chats, old.foldersData[i].chats)
                \/ IsRest(new.foldersData[i].chats, old.foldersData[i].chats)

\* C6 (as claimed): no step of a session gives an item that stays a
\* different creationIndex, and a page load gives every item of the store the
\* creationIndex that a load at any other time gives it.
C6_CreationIndexNeverChanges ==
    [][/\ last'.op \notin {"init", "reload"} => StampsKept(Stamps(Data), Stamps(Data'))
       /\ last'.op = "init"
            => \A t \in 1..MaxTime : Stamps(Reloaded(store, t)) = Stamps(Data')]_vars

\* C6 (amended): no step of a session gives an item that stays a different
\* creationIndex; a page load gives a stored record the creationIndex it was
\* stored with, and the time of the load if it was stored without one; after
\* a write that succeeded every record is stored with its creationIndex, so
\* that a load at any time gives it back.
C6_CreationIndexKept ==
    [][/\ last'.op \notin {"init", "reload"} => StampsKept(Stamps(Data), Stamps(Data'))
       /\ last'.op = "init"
            => LET stored == loadData(store)
                   Kept(new, r) ==
                       new.creationIndex =
                           IF "creationIndex" \in r.undef THEN clock
                           ELSE r.creationIndex
               IN  /\ Len(foldersData') = Len(stored.foldersData)
                   /\ Len(bookmarkChats') = Len(stored.bookmarkChats)
                   /\ \A i \in DOMAIN foldersData' :
                        /\ Kept(foldersData'[i], stored.foldersData[i])
                        /\ \A k \in DOMAIN foldersData'[i].chats :
                              Kept(foldersData'[i].chats[k],
                                   stored.foldersData[i].chats[k])
                   /\ \A i \in DOMAIN bookmarkChats' :
                        Kept(bookmarkChats'[i], stored.bookmarkChats[i])
       /\ last'.write = "ok"
            => \A t \in 1..MaxTime : Stamps(Reloaded(store', t)) = Stamps(Data')]_vars

\* C6 witness: the page was loaded at time 2 and shows a chat created at
\* time 1.
C6_Witness ==
    /\ last.op = "init"
    /\ clock = 2
    /\ \E i \in DOMAIN bookmarkChats : bookmarkChats[i].creationIndex = 1

\* C7: a folder creation with a name (trimmed and sanitized) is refused as a
\* duplicate if and only if a folder of the document has exactly that name.
C7_CreateFolderDuplicate ==
    [][(last'.op = "createFolder" /\ last'.arg # EmptyStr)
        => (last'.notice = "folderExists"
               <=> \E i \in DOMAIN foldersData : foldersData[i].name = last'.arg)]_vars

\* C7 witness: a folder exists, a creation under another name went through
\* and made the second folder.
C7_Witness ==
    /\ last.op = "createFolder"
    /\ last.notice = "none"
    /\ last.write # "none"
    /\ Len(foldersData) = 2
    /\ foldersData[2].name = last.arg
    /\ foldersData[1].name # last.arg

\* C8: a step that ends with a notice to the user (duplicate folder name,
\* chat already in the folder or in the bookmarks, invalid name) leaves the
\* document, the store and the expansion state as they were.
C8_RejectionChangesNothing ==
    [][last'.notice # "none"
        => UNCHANGED <<foldersData, bookmarkChats, store, folderExpansionState>>]_vars

\* C8 witness: the page was refused as already in a folder that is not
\* recorded as expanded.
C8_Witness ==
    /\ last.op = "addChat"
    /\ last.notice = "alreadyInFolder"
    /\ ~IsExpanded(folderExpansionState, last.folder)

\* C9: a folder rename is refused as a duplicate only when the new name is
\* the name of another folder; a rename to the folder's own name is not.
C9_RenameRefusedOnlyForOtherFolder ==
    [][(last'.op = "renameFolder" /\ last'.notice = "folderExists")
        => /\ last'.arg # last'.folder
           /\ \E i \in DOMAIN foldersData : foldersData[i].name = last'.arg]_vars

\* C10: after a folder rename that went through, the expansion state has no
\* entry for the old name and its entry for the new name is the value the old
\* name had (collapsed if it had none).
C10_RenameMovesExpansion ==
    [][(last'.op = "renameFolder" /\ last'.write # "none")
        => /\ last'.arg # last'.folder
           /\ last'.folder \notin DOMAIN folderExpansionState'
           /\ last'.arg \in DOMAIN folderExpansionState'
           /\ folderExpansionState'[last'.arg]
                  = (/\ last'.folder \in DOMAIN folderExpansionState
                     /\ folderExpansionState[last'.folder])]_vars

\* C10 witness: an expanded folder has been renamed and is expanded under
\* its new name.
C10_Witness ==
    /\ last.op = "renameFolder"
    /\ last.write # "none"
    /\ last.arg \in DOMAIN folderExpansionState
    /\ folderExpansionState[last.arg]
    /\ \E i \in DOMAIN rendered :
          /\ rendered[i].kind = "folder"
          /\ rendered[i].name = last.arg
          /\ rendered[i].expanded

\* The sequence without its element i.
Without(seq, i) ==
    [j \in 1..(Len(seq) - 1) |-> IF j < i THEN seq[j] ELSE seq[j + 1]]

\* The expansion state without the entry of `name', the others as they were.
EntryDropped(old, new, name) ==
    /\ DOMAIN new = DOMAIN old \ {name}
    /\ \A n \in DOMAIN new : new[n] = old[n]

\* The folder deletion took the one folder called l.folder, with its chats and
\* its expansion entry, and nothing else.
FolderDeleted(l) ==
    /\ \E i \in DOMAIN foldersData :
          /\ foldersData[i].name = l.folder
          /\ \A j \in DOMAIN foldersData : foldersData[j].name = l.folder => j = i
          /\ foldersData' = Without(foldersData, i)
    /\ bookmarkChats' = bookmarkChats
    /\ EntryDropped(folderExpansionState, folderExpansionState', l.folder)
    /\ \A i \in DOMAIN foldersData' : foldersData'[i].name # l.folder

StoreHasFolder(item, name) ==
    \E i \in DOMAIN loadData(item).foldersData :
        loadData(item).foldersData[i].name = name

\* C11 (as claimed): a folder deletion removes exactly that folder, its chats
\* and its expansion entry, leaves every other folder and every bookmark as
\* it was, and afterwards the folder is neither in the document nor in the
\* store.
C11_DeleteFolderEverywhere ==
    [][(last'.op = "deleteFolder" /\ last'.write # "none")
        => /\ FolderDeleted(last')
           /\ ~StoreHasFolder(store', last'.folder)]_vars

\* C11 (amended): the same, the store being rid of the folder when the write
\* did not fail; when it failed the store is what it was.
C11_DeleteFolderFrame ==
    [][(last'.op = "deleteFolder" /\ last'.write # "none")
        => /\ FolderDeleted(last')
           /\ last'.write = "ok"
                => /\ ~StoreHasFolder(store', last'.folder)
                   /\ loadData(store') = Data'
           /\ last'.write = "failed" => store' = store]_vars

\* C11 witness: folder A, which held a chat, was deleted and the write went
\* through; folder B and the bookmark are still there.
C11_Witness ==
    /\ last.op = "deleteFolder"
    /\ last.write = "ok"
    /\ last.folder = NameA
    /\ Len(foldersData) = 1
    /\ foldersData[1].name = NameB
    /\ bookmarkChats # <<>>
    /\ store = JSONstringify(Data)

\* The pin click changed pinned and pinnedAt of the one folder called
\* l.folder and nothing else of the document or of the expansion state.
FolderPinOnly(l) ==
    /\ bookmarkChats' = bookmarkChats
    /\ folderExpansionState' = folderExpansionState
    /\ Len(foldersData') = Len(foldersData)
    /\ \A i \in DOMAIN foldersData :
          IF foldersData[i].name = l.folder
          THEN /\ foldersData'[i].name = foldersData[i].name
               /\ foldersData'[i].creationIndex = foldersData[i].creationIndex
               /\ foldersData'[i].chats = foldersData[i].chats
               /\ foldersData'[i].pinned = ~foldersData[i].pinned
          ELSE foldersData'[i] = foldersData[i]

\* The document of the scenario before the pin: one unpinned folder holding
\* one unpinned chat, no bookmarks.
OneFolderOneChat(data) ==
    /\ Len(data.foldersData) = 1
    /\ data.bookmarkChats = <<>>
    /\ ~data.foldersData[1].pinned
    /\ Len(data.foldersData[1].chats) = 1
    /\ ~data.foldersData[1].chats[1].pinned

\* The document of the scenario after the pin.
PinnedFolderOneChat(data, name) ==
    /\ Len(data.foldersData) = 1
    /\ data.foldersData[1].name = name
    /\ data.foldersData[1].pinned
    /\ data.foldersData[1].pinnedAt # Null
    /\ Len(data.foldersData[1].chats) = 1
    /\ ~data.foldersData[1].chats[1].pinned

\* C12 (as claimed): a folder pin toggle changes pinned and pinnedAt of that
\* folder only; pinning the one folder of a document that holds one chat
\* leaves, in memory and in the store, one pinned folder with pinnedAt set,
\* holding one unpinned chat.
C12_PinFolderPersisted ==
    [][(last'.op = "pinFolder" /\ last'.write # "none")
        => /\ FolderPinOnly(last')
           /\ OneFolderOneChat(Data)
                => /\ PinnedFolderOneChat(Data', last'.folder)
                   /\ PinnedFolderOneChat(loadData(store'), last'.folder)]_vars

\* C12 (amended): the same, the store holding that document when the write
\* did not fail.
C12_PinFolderFrame ==
    [][(last'.op = "pinFolder" /\ last'.write # "none")
        => /\ FolderPinOnly(last')
           /\ OneFolderOneChat(Data)
                => /\ PinnedFolderOneChat(Data', last'.folder)
                   /\ last'.write = "ok"
                        => PinnedFolderOneChat(loadData(store'), last'.folder)]_vars

\* C12 witness: after the creation of a folder and the addition of the page
\* to it, the folder was pinned and saved; it is still expanded.
C12_Witness ==
    /\ last.op = "pinFolder"
    /\ last.write = "ok"
    /\ steps = 4
    /\ PinnedFolderOneChat(loadData(store), last.folder)
    /\ bookmarkChats = <<>>
    /\ foldersData[1].creationIndex = clock
    /\ IsExpanded(folderExpansionState, last.folder)

\* The record an addition makes of (name, href) at time t.
AddedRecord(name, href, t) ==
    [name |-> name, href |-> href, pinned |-> FALSE, pinnedAt |-> Null,
     creationIndex |-> t, undef |-> {}]

HasChat(chats, name, href) ==
    \E k \in DOMAIN chats : chats[k].name = name /\ chats[k].href = href

\* C13: adding the page (name, href) to a folder that holds a chat of that
\* (name, href) shows a notice and changes nothing; otherwise it appends the
\* one record {name, href, unpinned, pinnedAt null, creationIndex now} to the
\* chats of that folder and changes no other folder, no chat and no bookmark.
C13_AddChatToFolder ==
    [][last'.op = "addChat"
        => \E i \in DOMAIN foldersData :
              /\ foldersData[i].name = last'.folder
              /\ IF HasChat(foldersData[i].chats, last'.name, last'.href)
                 THEN /\ last'.notice = "alreadyInFolder"
                      /\ UNCHANGED <<foldersData, bookmarkChats, store,
                                     folderExpansionState>>
                 ELSE /\ last'.notice = "none"
                      /\ bookmarkChats' = bookmarkChats
                      /\ Len(foldersData') = Len(foldersData)
                      /\ \A j \in DOMAIN foldersData \ {i} :
                            foldersData'[j] = foldersData[j]
                      /\ foldersData'[i].chats =
                             foldersData[i].chats \o
                                 <<AddedRecord(last'.name, last'.href, clock)>>
                      /\ [foldersData'[i] EXCEPT !.chats = <<>>]
                             = [foldersData[i] EXCEPT !.chats = <<>>]]_vars

\* C13 witness: the page, whose title had changed, was added to a folder that
\* already held a chat of the same href under another name.
C13_Witness ==
    /\ last.op = "addChat"
    /\ last.notice = "none"
    /\ \E i \in DOMAIN foldersData :
          /\ foldersData[i].name = last.folder
          /\ Len(foldersData[i].chats) = 2
          /\ foldersData[i].chats[1].href = last.href
          /\ foldersData[i].chats[1].name # last.name
          /\ foldersData[i].chats[2] = AddedRecord(last.name, last.href, clock)

\* The step is an operation on a root bookmark.
BookmarkOp(l) ==
    \/ l.op = "addBookmark"
    \/ l.op \in {"renameChat", "pinChat", "deleteChat"} /\ l.folder = EmptyStr

\* C14: bookmarking a page that is bookmarked under that (name, href) shows a
\* notice and changes nothing, otherwise it appends the one record {name,
\* href, unpinned, pinnedAt null, creationIndex now} to the bookmarks; no
\* addition, removal, rename or pin toggle of a bookmark changes a folder, a
\* chat of a folder or the expansion state.
C14_BookmarkOps ==
    [][/\ BookmarkOp(last')
            => /\ foldersData' = foldersData
               /\ folderExpansionState' = folderExpansionState
       /\ last'.op = "addBookmark"
            => IF HasChat(bookmarkChats, last'.name, last'.href)
               THEN /\ last'.notice = "alreadyBookmarked"
                    /\ UNCHANGED <<bookmarkChats, store>>
               ELSE /\ last'.notice = "none"
                    /\ bookmarkChats' =
                           bookmarkChats \o
                               <<AddedRecord(last'.name, last'.href, clock)>>]_vars

\* C14 witness: a bookmark was removed while the folders, one of them holding
\* a chat of the same (name, href), stayed.
C14_Witness ==
    /\ last.op = "deleteChat"
    /\ last.folder = EmptyStr
    /\ last.write # "none"
    /\ bookmarkChats = <<>>
    /\ \E i \in DOMAIN foldersData :
          HasChat(foldersData[i].chats, last.name, last.href)

\* C15: after a title change to t on the page of href h has been handled,
\* every chat record of href h, in every folder and in the bookmarks, has
\* name t.
C15_TitleReachesEveryCopy ==
    [][last'.op = "titleChange"
        => \A chats \in AllChatLists(Data') :
              \A k \in DOMAIN chats :
                  chats[k].href = last'.href => chats[k].name = last'.name]_vars

\* The names of the chat records of a document, position by position.
ChatNames(data) ==
    [foldersData |->
        [i \in DOMAIN data.foldersData |->
            [k \in DOMAIN data.foldersData[i].chats |->
                data.foldersData[i].chats[k].name]],
     bookmarkChats |->
        [i \in DOMAIN data.bookmarkChats |-> data.bookmarkChats[i].name]]

\* C16: a title change that changed the name of at least one chat record is
\* followed by one write of the document and one render; one that changed
\* no name is followed by no write and no render.
C16_TitleChangeOneWriteOneRender ==
    [][last'.op = "titleChange"
        => IF ChatNames(Data') # ChatNames(Data)
           THEN /\ last'.write \in {"ok", "failed"}
                /\ last'.renders = 1
                /\ last'.write = "ok" => store' = JSONstringify(Data')
                /\ last'.write = "failed" => store' = store
                /\ rendered' = renderItems(foldersData', bookmarkChats',
                                           folderExpansionState')
           ELSE /\ last'.write = "none"
                /\ last'.renders = 0
                /\ UNCHANGED <<foldersData, bookmarkChats, store, rendered>>]_vars

\* C16 witness: one title change renamed a chat of a folder and a bookmark,
\* and was followed by one write and one render.
C16_Witness ==
    /\ last.op = "titleChange"
    /\ last.write = "ok"
    /\ last.renders = 1
    /\ \E i \in DOMAIN foldersData :
          \E k \in DOMAIN foldersData[i].chats :
              /\ foldersData[i].chats[k].name = TitleLt
              /\ foldersData[i].chats[k].href = last.href
    /\ \E i \in DOMAIN bookmarkChats :
          /\ bookmarkChats[i].name = TitleLt
          /\ bookmarkChats[i].href = last.href
    /\ last.name = TitleLt
    /\ store = JSONstringify(Data)

\* f lists the positions of `items' in sortItems order, items that compare
\* equal in their storage order.
IsSortOrder(f, items) ==
    \A i, j \in DOMAIN items :
        i < j => \/ sortItems(items[f[i]], items[f[j]]) < 0
                 \/ /\ sortItems(items[f[i]], items[f[j]]) = 0
                    /\ f[i] < f[j]

\* `rows' shows the chats in sortItems order.
ShowsChats(rows, chats, folderName, isBookmark) ==
    /\ Len(rows) = Len(chats)
    /\ \E f \in Reorderings(Len(chats)) :
          /\ IsSortOrder(f, chats)
          /\ \A i \in DOMAIN rows :
                /\ rows[i].kind = "chat"
                /\ rows[i].name = chats[f[i]].name
                /\ rows[i].href = chats[f[i]].href
                /\ rows[i].pinned = chats[f[i]].pinned
                /\ rows[i].folder = folderName
                /\ rows[i].bookmark = isBookmark

\* `rows' is the body of a folder holding `chats'.
ShowsBody(rows, chats, folderName) ==
    IF chats = <<>>
    THEN Len(rows) = 1 /\ rows[1].kind = "empty"
    ELSE ShowsChats(rows, chats, folderName, FALSE)

\* `nodes' shows the folders in sortItems order, each with its body.
ShowsFolders(nodes, folders) ==
    /\ Len(nodes) = Len(folders)
    /\ \E f \in Reorderings(Len(folders)) :
          /\ IsSortOrder(f, folders)
          /\ \A i \in DOMAIN nodes :
                /\ nodes[i].kind = "folder"
                /\ nodes[i].name = folders[f[i]].name
                /\ nodes[i].pinned = folders[f[i]].pinned
                /\ ShowsBody(nodes[i].rows, folders[f[i]].chats, folders[f[i]].name)

\* C17: the rendered tree is the folders in sortItems order, each with its
\* chats in sortItems order or with the one "(empty)" placeholder, then one
\* separator if and only if a bookmark exists, then the bookmarks in
\* sortItems order.
C17_RenderedTree ==
    LET nF == Len(foldersData)
        nB == Len(bookmarkChats)
        nS == IF nB > 0 THEN 1 ELSE 0
    IN  /\ Len(rendered) = nF + nS + nB
        /\ ShowsFolders(SubSeq(rendered, 1, nF), foldersData)
        /\ nB > 0 => rendered[nF + 1].kind = "bookmarkHeader"
        /\ ShowsChats(SubSeq(rendered, nF + nS + 1, nF + nS + nB), bookmarkChats,
                      EmptyStr, TRUE)

\* C17 witness: the tree shows the pinned, empty folder B, then folder A
\* with its chat, then the separator and the bookmark.
C17_Witness ==
    /\ injected
    /\ Len(rendered) = 4
    /\ rendered[1].kind = "folder" /\ rendered[1].name = NameB
    /\ Len(rendered[1].rows) = 1 /\ rendered[1].rows[1].kind = "empty"
    /\ rendered[2].kind = "folder" /\ rendered[2].name = NameA
    /\ rendered[2].rows[1].kind = "chat"
    /\ rendered[3].kind = "bookmarkHeader"
    /\ rendered[4].kind = "chat" /\ rendered[4].bookmark
    /\ foldersData[1].name = NameA

(***************************************************************************)
(* A harness for rendering alone: renderItems() called, and called again,   *)
(* on documents of at most MaxRenderLen folders and MaxRenderLen bookmarks. *)
(***************************************************************************)
\* A renderItems that sorts the arrays themselves (sort without slice).
renderItemsEffectSortsInPlace(folders, bookmarks, exp) ==
    [foldersData |->
        [i \in DOMAIN folders |->
            [SliceSort(folders)[i] EXCEPT !.chats = SliceSort(@)]],
     bookmarkChats |-> SliceSort(bookmarks),
     folderExpansionState |-> exp]

\* What renderItems leaves in the arrays and in the map: it sorts copies
\* (slice()) and only reads folderExpansionState.
renderItemsEffect(folders, bookmarks, exp) ==
    [foldersData |-> folders, bookmarkChats |-> bookmarks,
     folderExpansionState |-> exp]

RenderFolders ==
    {[NewFolder(NameA, 2) EXCEPT
         !.chats = <<NewChat(NameX, "h1", 2), NewChat(TitleT, "h1", 1)>>],
     togglePin(NewFolder(NameB, 2), 1),
     NewFolder(NameX, 1)}

RenderBookmarks ==
    {NewChat(TitleT, "h1", 2), togglePin(NewChat(NameX, "h2", 2), 1),
     NewChat(TitleT, "h2", 1)}

\* The sequences of at most MaxRenderLen different elements of S.
SeqsOf(S) ==
    UNION {{f \in [1..n -> S] : \A i, j \in 1..n : i # j => f[i] # f[j]} :
              n \in 0..MaxRenderLen}

RenderExpansions ==
    UNION {[D -> BOOLEAN] : D \in SUBSET {NameA, NameB}}

RenderInit ==
    /\ foldersData \in SeqsOf(RenderFolders)
    /\ bookmarkChats \in SeqsOf(RenderBookmarks)
    /\ folderExpansionState \in RenderExpansions
    /\ store = JSONstringify(Data)
    /\ injected = TRUE
    /\ itemsDisplay = "block"
    /\ rendered = <<>>
    /\ docTitle = TitleT
    /\ locationHref = "h1"
    /\ clock = 2
    /\ last = Last("start", EmptyStr, EmptyStr, "", EmptyStr, "none", "none", 0)
    /\ steps = 0
    /\ sortIn = <<>>
    /\ sortOut = <<>>
    /\ readerResult = NoResult
    /\ loads = 0
    /\ otherTab = FreshTab
    /\ previous = NoRecord
    /\ v19 = NotRunning

\* renderItems()
RenderItemsCall ==
    LET effect == renderItemsEffect(foldersData, bookmarkChats, folderExpansionState)
    IN  /\ steps < 2
        /\ steps' = steps + 1
        /\ rendered' = renderItems(foldersData, bookmarkChats, folderExpansionState)
        /\ foldersData' = effect.foldersData
        /\ bookmarkChats' = effect.bookmarkChats
        /\ folderExpansionState' = effect.folderExpansionState
        /\ last' = Last("render", EmptyStr, EmptyStr, "", EmptyStr, "none", "none", 1)
        /\ UNCHANGED <<store, injected, itemsDisplay, hostVars, sortVars, loads, previous>>

RenderNext == RenderItemsCall

RenderSpec == RenderInit /\ [][RenderNext]_vars

EntryTrue(exp, name) == name \in DOMAIN exp /\ exp[name]

\* The body of the folder `name' is shown in the tree.
BodyVisible(tree, name) ==
    \E i \in DOMAIN tree :
        tree[i].kind = "folder" /\ tree[i].name = name /\ tree[i].expanded

\* C19: the body of a rendered folder is visible exactly when the folder's
\* expansion entry is true; a click on the folder flips that entry, shows the
\* tree anew and changes neither the document nor the store, so that the
\* body is visible after the click exactly when it was not before (and a
\* second click brings the first visibility back).
C19_FolderToggle ==
    [][/\ \A i \in DOMAIN rendered' :
             rendered'[i].kind = "folder"
                 => (rendered'[i].expanded
                        <=> EntryTrue(folderExpansionState', rendered'[i].name))
       /\ last'.op = "toggleFolder"
            => /\ UNCHANGED <<foldersData, bookmarkChats, store>>
               /\ last'.renders = 1
               /\ EntryTrue(folderExpansionState', last'.folder)
                      <=> ~EntryTrue(folderExpansionState, last'.folder)
               /\ BodyVisible(rendered', last'.folder)
                      <=> ~BodyVisible(rendered, last'.folder)
               /\ \A n \in DOMAIN folderExpansionState \ {last'.folder} :
                     /\ n \in DOMAIN folderExpansionState'
                     /\ folderExpansionState'[n] = folderExpansionState[n]
               /\ DOMAIN folderExpansionState'
                      = DOMAIN folderExpansionState \cup {last'.folder}]_vars

\* C19 witness: folder A of the saved document, collapsed, was clicked
\* twice: it is collapsed again, its entry now false.
C19_Witness ==
    /\ last.op = "toggleFolder"
    /\ last.folder = NameA
    /\ steps = 4
    /\ Data = SavedData
    /\ NameA \in DOMAIN folderExpansionState
    /\ ~folderExpansionState[NameA]
    /\ ~BodyVisible(rendered, NameA)

\* C20: after a folder creation and after an addition of a chat to a folder
\* that went through, the folder's expansion entry is true and the tree
\* shown shows the folder's body.
C20_ExpandedAfterCreateAndAdd ==
    [][/\ (last'.op = "createFolder" /\ last'.write # "none")
            => /\ EntryTrue(folderExpansionState', last'.arg)
               /\ BodyVisible(rendered', last'.arg)
       /\ (last'.op = "addChat" /\ last'.write # "none")
            => /\ EntryTrue(folderExpansionState', last'.folder)
               /\ BodyVisible(rendered', last'.folder)]_vars

\* C20 witness: the page was added to folder B of the saved document, which
\* was collapsed, and B is shown expanded with the chat.
C20_Witness ==
    /\ last.op = "addChat"
    /\ last.write # "none"
    /\ last.folder = NameB
    /\ steps = 3
    /\ bookmarkChats = SavedData.bookmarkChats
    /\ foldersData[1] = SavedData.foldersData[1]
    /\ DOMAIN folderExpansionState = {NameB}
    /\ EntryTrue(folderExpansionState, NameB)
    /\ \E i \in DOMAIN rendered :
          /\ rendered[i].kind = "folder"
          /\ rendered[i].name = NameB
          /\ rendered[i].expanded
          /\ rendered[i].rows[1].kind = "chat"

\* The step is a rename, a pin toggle or a deletion of a chat row.
ChatRowOp(l) == l.op \in {"renameChat", "pinChat", "deleteChat"}

\* Every collection but the one the chat row belongs to (the bookmarks when
\* l.folder is empty, else the folder of that name) is as it was.
OtherCollectionsKept(l) ==
    /\ Len(foldersData') = Len(foldersData)
    /\ l.folder # EmptyStr => bookmarkChats' = bookmarkChats
    /\ \A i \in DOMAIN foldersData :
          foldersData[i].name # l.folder
              => foldersData'[i].chats = foldersData[i].chats

\* C21: a rename, a pin toggle or a deletion of a chat in one folder (or in
\* the bookmarks) changes no chat record of any other folder or of the
\* bookmarks, whether or not that record has the same (name, href).
C21_CopiesIndependent ==
    [][ChatRowOp(last') => OtherCollectionsKept(last')]_vars

\* C21 witness: the bookmark (T, h1) was renamed X while folder A holds a chat
\* (T, h1), which kept its name.
C21_Witness ==
    /\ last.op = "renameChat"
    /\ last.folder = EmptyStr
    /\ last.write # "none"
    /\ last.name = TitleT
    /\ \E k \in DOMAIN bookmarkChats :
          bookmarkChats[k].name = NameX /\ bookmarkChats[k].href = last.href
    /\ \E i \in DOMAIN foldersData :
          \E k \in DOMAIN foldersData[i].chats :
             /\ foldersData[i].chats[k].name = TitleT
             /\ foldersData[i].chats[k].href = last.href

\* Record m is the stored record r after the migration at time t: a property
\* r lacks has its default, a property r has kept its value.
Migrated(r, m, t) ==
    /\ m.name = r.name
    /\ m.undef \cap {"pinned", "pinnedAt", "creationIndex"} = {}
    /\ m.pinned = IF "pinned" \in r.undef THEN FALSE ELSE r.pinned
    /\ m.pinnedAt = IF "pinnedAt" \in r.undef THEN Null ELSE r.pinnedAt
    /\ m.creationIndex = IF "creationIndex" \in r.undef THEN t ELSE r.creationIndex

MigratedChats(stored, chats, t) ==
    /\ Len(chats) = Len(stored)
    /\ \A k \in DOMAIN stored :
          /\ chats[k].href = stored[k].href
          /\ Migrated(stored[k], chats[k], t)

\* C22: after the load at initialization every folder, every chat of a folder
\* and every bookmark has pinned, pinnedAt and creationIndex defined (a
\* missing pinned is false, a missing pinnedAt null, a missing creationIndex
\* the current time, a stored value kept), and the first render shows the
\* document so completed.
C22_LoadedRecordsComplete ==
    [][last'.op = "init" /\ injected'
        => /\ Len(foldersData') = Len(loadData(store).foldersData)
           /\ \A i \in DOMAIN foldersData' :
                 /\ Migrated(loadData(store).foldersData[i], foldersData'[i], clock)
                 /\ MigratedChats(loadData(store).foldersData[i].chats,
                                  foldersData'[i].chats, clock)
           /\ MigratedChats(loadData(store).bookmarkChats, bookmarkChats', clock)
           /\ rendered' =
                  renderItems(foldersData', bookmarkChats', folderExpansionState')]_vars

\* C22 witness: the document of an earlier release was loaded at time 2; its
\* folder kept pinned = true and got pinnedAt = null and creationIndex = 2,
\* and the chat in it got all three defaults.
C22_Witness ==
    /\ last.op = "init"
    /\ injected
    /\ store = JSONstringify(LegacyData)
    /\ clock = 2
    /\ foldersData[1].pinned /\ foldersData[1].pinnedAt = Null
    /\ foldersData[1].creationIndex = 2
    /\ foldersData[1].chats[1] = NewChat(TitleT, "h1", 2)

\* The file of that name among the files the user picks.
FileNamed(name) == CHOOSE file \in ImportFiles : file.name = name

\* The text is a well-formed document: it parses to an object with the two
\* arrays, every folder with its chats.
WellFormed(text) ==
    /\ ~ParseThrows(text)
    /\ HasArrays(JSONparse(text))
    /\ \A i \in DOMAIN JSONparse(text).foldersData :
          "chats" \notin JSONparse(text).foldersData[i].undef

\* The document, the store and the tree are those of the imported text.
ImportDone(text) ==
    /\ Data' = JSONparse(text)
    /\ loadData(store') = Data'
    /\ rendered' = renderItems(foldersData', bookmarkChats', folderExpansionState')

\* C23: when the user has chosen a file holding a well-formed document, the
\* import completes (the document in memory is the file's, the store holds
\* it, the tree shows it), or at least is on its way: the reader has the text
\* of the file, from which its load event will complete the import.
C23_ImportCompletes ==
    [][last'.op = "importChange" /\ WellFormed(FileNamed(last'.name).text)
        => \/ ImportDone(FileNamed(last'.name).text)
           \/ readerResult' = FileNamed(last'.name).text]_vars

\* C24: an import of a file that is not a well-formed document ends with a
\* notice and leaves the document in memory and the store as they were.
C24_BadImportRejected ==
    [][last'.op = "importChange" /\ ~WellFormed(FileNamed(last'.name).text)
        => /\ last'.notice # "none"
           /\ UNCHANGED <<foldersData, bookmarkChats, store>>]_vars

(***************************************************************************)
(* A harness for the import alone: the load event of a reader that has been *)
(* given the text of a file, in a session that holds some document.  The    *)
(* files are the exports of the documents of the render harness, a document *)
(* of an earlier release, and files that are not documents.                  *)
(***************************************************************************)
\* A document with a folder that has no chats array.
NoChatsData ==
    [foldersData |->
        <<NewFolder(NameA, 1),
          StoredFolder(NameB, <<>>, FALSE,
                       {"chats", "pinned", "pinnedAt", "creationIndex"})>>,
     bookmarkChats |->
        <<StoredChat(TitleT, "h1", FALSE, {"pinned", "pinnedAt", "creationIndex"})>>]

ExportedTexts ==
    {exportItem(folders, bookmarks) :
        folders \in SeqsOf(RenderFolders), bookmarks \in SeqsOf(RenderBookmarks)}

OtherTexts ==
    {NotJSON, JSONWithoutArrays, JSONstringify(LegacyData), JSONstringify(NoChatsData)}

\* The documents of the session that imports.
ImportSessions == {EmptyData, SavedData}

ImportInit ==
    /\ \E session \in ImportSessions :
          /\ foldersData = session.foldersData
          /\ bookmarkChats = session.bookmarkChats
    /\ folderExpansionState \in {EmptyExpansion, ExpansionSet(EmptyExpansion, NameA, TRUE)}
    /\ store = JSONstringify(Data)
    /\ injected = TRUE
    /\ itemsDisplay = "block"
    /\ rendered = renderItems(foldersData, bookmarkChats, folderExpansionState)
    /\ docTitle = TitleT
    /\ locationHref = "h1"
    /\ clock = 2
    /\ last = Last("start", EmptyStr, EmptyStr, "", EmptyStr, "none", "none", 0)
    /\ steps = 0
    /\ sortIn = <<>>
    /\ sortOut = <<>>
    /\ readerResult \in ExportedTexts \cup OtherTexts
    /\ loads = 1
    /\ otherTab = FreshTab
    /\ previous = NoRecord
    /\ v19 = NotRunning

ImportNext ==
    \E writeOk \in BOOLEAN : last.op = "start" /\ ReaderOnload(writeOk)

ImportSpec == ImportInit /\ [][ImportNext]_vars

HoldsDocument(item) ==
    /\ item.kind = "json"
    /\ \A i \in DOMAIN JSONparse(item).foldersData :
          "chats" \notin JSONparse(item).foldersData[i].undef

\* C26: an initialization that finds the store empty, unreadable or holding
\* anything that is not a document is not aborted: it goes on with the empty
\* document and injects the header.
C26_InitSurvivesBadStore ==
    [][last'.op = "init" /\ ~HoldsDocument(store)
        => /\ injected'
           /\ foldersData' = <<>>
           /\ bookmarkChats' = <<>>]_vars

FolderNamed(folders, name) == \E i \in DOMAIN folders : folders[i].name = name

\* The document after the step shows what the operation l was to do.
MutationStands(l) ==
    /\ l.op = "createFolder" => FolderNamed(foldersData', l.arg)
    /\ l.op = "renameFolder"
           => FolderNamed(foldersData', l.arg) /\ ~FolderNamed(foldersData', l.folder)
    /\ l.op = "deleteFolder"
           => FolderNamed(foldersData, l.folder) /\ ~FolderNamed(foldersData', l.folder)
    /\ l.op = "pinFolder"
           => ClickedFolder(foldersData', l).pinned = ~ClickedFolder(foldersData, l).pinned
    /\ l.op = "addBookmark"
           => ~HasChat(bookmarkChats, l.name, l.href)
              /\ HasChat(bookmarkChats', l.name, l.href)
    /\ l.op = "addChat"
           => ~HasChat(ClickedFolder(foldersData, l).chats, l.name, l.href)
              /\ HasChat(ClickedFolder(foldersData', l).chats, l.name, l.href)
    /\ l.op = "renameChat" => HasChat(ClickedChats(Data', l), l.arg, l.href)
    /\ l.op = "pinChat"
           => ClickedChats(Data', l)[ClickedChatIndex(Data, l)].pinned
                  = ~ClickedChats(Data, l)[ClickedChatIndex(Data, l)].pinned
    /\ l.op = "deleteChat"
           => HasChat(ClickedChats(Data, l), l.name, l.href)
              /\ ~HasChat(ClickedChats(Data', l), l.name, l.href)
    /\ l.op = "titleChange"
           => /\ Data' # Data
              /\ \A k \in DOMAIN bookmarkChats' :
                    bookmarkChats'[k].href = l.href => bookmarkChats'[k].name = l.name

\* C27: when the write to the store fails the operation is not rolled back:
\* the document in memory has the mutation, the tree rendered after it shows
\* that document, the store has the content it had, and the session goes on
\* (the header stays, and the next write that succeeds stores the whole
\* document in memory, the mutations that were not stored included).
C27_WriteFailureNoRollback ==
    [][/\ last'.write = "failed"
            => /\ MutationStands(last')
               /\ rendered' =
                      renderItems(foldersData', bookmarkChats', folderExpansionState')
               /\ store' = store
               /\ injected'
       /\ last'.write = "ok" => loadData(store') = Data']_vars

\* C27 witness: the page was added to a folder the store has never held: the
\* write that was to store the new folder had failed, and the folder was
\* there for the next operation, whose write failed too.
C27_Witness ==
    /\ last.op = "addChat"
    /\ last.write = "failed"
    /\ ~StoreHasFolder(store, last.folder)
    /\ \E i \in DOMAIN foldersData :
          /\ foldersData[i].name = last.folder
          /\ HasChat(foldersData[i].chats, last.name, last.href)
    /\ \E i \in DOMAIN rendered :
          /\ rendered[i].kind = "folder" /\ rendered[i].name = last.folder
          /\ rendered[i].rows[1].kind = "chat"

\* C28: however often the page mutates and initMyFolders is called, the
\* header is injected at most once and the document is loaded from the store
\* at most once in a page session.
C28_InitOnce ==
    [][last'.op = "init" => ~injected /\ loads' <= 1]_vars

\* C29: in every state the name of every folder and of every chat, in a
\* folder or among the bookmarks, is a non-empty string.
C29_NamesNonEmpty ==
    \A item \in AllItems(Data) : item.name # EmptyStr

\* The step is one of the user's actions on the document.
UserMutation(l) ==
    l.op \in {"createFolder", "addBookmark", "renameFolder", "addChat", "pinFolder",
              "deleteFolder", "renameChat", "pinChat", "deleteChat"}

ShownOpen(exp, name) == name \in DOMAIN exp /\ exp[name]

\* The names of the folders of the document.
FolderNames(folders) == {folders[i].name : i \in DOMAIN folders}

\* The step is an operation on a chat of a folder, on a bookmark, or a
\* change of the page's title.
ChatLevelOp(l) ==
    l.op \in {"renameChat", "pinChat", "deleteChat", "addBookmark", "titleChange"}

\* The folder, if any, the operation l acts on, by its name before and after.
ActedOn(l) ==
    IF l.op \in {"createFolder", "renameFolder"} THEN {l.folder, l.arg} ELSE {l.folder}

\* C31: no operation changes whether a folder other than the one it acts on
\* is shown open, and an operation on a chat of a folder, an operation on a
\* bookmark and a title change do not change it for any folder, the folder
\* holding the chat included.
C31_ExpansionKept ==
    [][last'.op \notin {"init", "reload"}
        => /\ \A name \in FolderNames(foldersData) \cap FolderNames(foldersData') :
                 name \notin ActedOn(last')
                     => ShownOpen(folderExpansionState', name)
                            = ShownOpen(folderExpansionState, name)
           /\ ChatLevelOp(last')
                 => /\ FolderNames(foldersData') = FolderNames(foldersData)
                    /\ \A name \in FolderNames(foldersData) :
                          ShownOpen(folderExpansionState', name)
                              = ShownOpen(folderExpansionState, name)]_vars

\* C31 witness: a chat of the open folder A was pinned while folder B was
\* closed; A is still open and B still closed.
C31_Witness ==
    /\ last.op = "pinChat"
    /\ last.folder = NameA
    /\ last.write # "none"
    /\ FolderNames(foldersData) = {NameA, NameB}
    /\ ShownOpen(folderExpansionState, NameA)
    /\ ~ShownOpen(folderExpansionState, NameB)


(***************************************************************************)
(* C32: two tabs on one localStorage                                       *)
(***************************************************************************)
\* The folders the other tab has in memory and the tab in use has not.
OnlyInOtherTab(folders, other) ==
    FolderNames(other.foldersData) \ FolderNames(folders)

\* C32: with two tabs sharing localStorage, each holding the document it
\* loaded, the last writer wins: a successful save of a tab replaces the
\* stored document by the whole document of that tab, whatever the store held
\* (nothing is merged, nothing is refused), so that a folder only the other tab
\* has is not in the store afterwards; no step without a successful save
\* changes the store.
C32_LastWriterWins ==
    [][/\ last'.write = "ok"
            => /\ store' = JSONstringify(Data')
               /\ \A n \in OnlyInOtherTab(foldersData', otherTab') :
                     ~StoreHasFolder(store', n)
       /\ last'.write # "ok" => store' = store]_vars

\* The other tab created folder A and saved it, then this tab, which had
\* loaded before, created folder B and saved: the store has B and not A.
C32_Witness ==
    /\ otherTab.last.op = "createFolder" /\ otherTab.last.arg = NameA
    /\ otherTab.last.write = "ok"
    /\ NameA \in FolderNames(otherTab.foldersData)
    /\ last.op = "createFolder" /\ last.arg = NameB /\ last.write = "ok"
    /\ NameA \notin FolderNames(foldersData)
    /\ StoreHasFolder(store, NameB)
    /\ ~StoreHasFolder(store, NameA)


(***************************************************************************)
(* C33: the keys of the expansion map                                      *)
(***************************************************************************)
\* C33: every key of folderExpansionState is the name of a folder of the
\* document: no entry is left for a folder that was deleted, renamed away or
\* replaced.
C33_ExpansionKeysAreFolders ==
    DOMAIN folderExpansionState \subseteq FolderNames(foldersData)

\* A folder shown open has been renamed: the entry is under the new name,
\* none is left under the old one.
C33_Witness ==
    /\ last.op = "renameFolder"
    /\ last.write # "none"
    /\ last.arg \in FolderNames(foldersData)
    /\ last.folder \notin FolderNames(foldersData)
    /\ ShownOpen(folderExpansionState, last.arg)
    /\ last.folder \notin DOMAIN folderExpansionState


(***************************************************************************)
(* C34: a chat row's delete control                                        *)
(***************************************************************************)
\* The collection a chat row of folder `name' is shown in: the bookmarks for
\* the row of a bookmark.
ShownIn(folders, bookmarks, name) ==
    IF name = EmptyStr THEN bookmarks
    ELSE folders[FolderIndex(folders, name)].chats

\* C34: a delete through a chat row removes exactly one record of the
\* collection the row is shown in: the collection is one shorter and the other
\* records are kept in their order.
C34_DeleteRemovesOne ==
    [][last'.op = "deleteChat" /\ last'.write # "none"
            => LET before == ShownIn(foldersData, bookmarkChats, last'.folder)
                   after == ShownIn(foldersData', bookmarkChats', last'.folder)
               IN  /\ Len(after) = Len(before) - 1
                   /\ \E i \in DOMAIN before : after = Splice(before, i)]_vars


(***************************************************************************)
(* C35: the name a user gave to a chat                                     *)
(***************************************************************************)
\* A name only the rename prompt gives: no page of the model has the title X.
RenamedByUser(chat) == chat.name = NameX

\* The rename control of the row of this record has been used.
RenameOf(l, chat) ==
    l.op = "renameChat" /\ l.name = chat.name /\ l.href = chat.href

\* The title of the page of this record has changed.
TitleChangeOf(l, chat) ==
    l.op = "titleChange" /\ l.href = chat.href

\* The steps that remove records or start a session anew.
RemovesRecords(l) == l.op \in {"deleteChat", "deleteFolder", "init", "reload"}

\* The delete control of the row of this record, shown in `folder' (the
\* bookmarks: the empty name), or of that folder has been used.
DeleteOf(l, chat, folder) ==
    \/ l.op = "deleteChat" /\ l.folder = folder /\ l.name = chat.name /\ l.href = chat.href
    \/ l.op = "deleteFolder" /\ l.folder = folder /\ folder # EmptyStr

\* The records of a collection that the user named.
UserRecords(chats) == {chats[i] : i \in {j \in DOMAIN chats : RenamedByUser(chats[j])}}

\* A delete leaves every other record the user named as it is, in its
\* collection.
DeleteKeepsOthers ==
    last'.op \in {"deleteChat", "deleteFolder"}
        => /\ \A c \in UserRecords(bookmarkChats) :
                 ~DeleteOf(last', c, EmptyStr)
                    => \E i \in DOMAIN bookmarkChats' : bookmarkChats'[i] = c
           /\ \A f \in DOMAIN foldersData :
                 \A c \in UserRecords(foldersData[f].chats) :
                    ~DeleteOf(last', c, foldersData[f].name)
                       => \E g \in DOMAIN foldersData' :
                             /\ foldersData'[g].name = foldersData[f].name
                             /\ \E i \in DOMAIN foldersData'[g].chats :
                                   foldersData'[g].chats[i] = c

\* Records are added at the end only, so a record keeps its place while none
\* is removed.
SameNames(before, after, i) ==
    /\ i \in DOMAIN after
    /\ after[i].name = before[i].name

\* C35: a name given by the rename control of a chat row stays the name of that
\* record until the user renames or deletes the record; no other event, a
\* title change of the host page in particular, changes it.
C35_RenameStays ==
    [][/\ DeleteKeepsOthers
       /\ ~RemovesRecords(last')
            => /\ \A i \in DOMAIN bookmarkChats :
                     RenamedByUser(bookmarkChats[i]) /\ ~RenameOf(last', bookmarkChats[i])
                        => SameNames(bookmarkChats, bookmarkChats', i)
               /\ \A f \in DOMAIN foldersData :
                     \A i \in DOMAIN foldersData[f].chats :
                        /\ RenamedByUser(foldersData[f].chats[i])
                        /\ ~RenameOf(last', foldersData[f].chats[i])
                        => /\ f \in DOMAIN foldersData'
                           /\ SameNames(foldersData[f].chats, foldersData'[f].chats, i)]_vars

\* C35 as the code has it: a name given by the rename control stays the name of
\* the record within the page session until the user renames or deletes the
\* record or the title of the page changes while the location is the href of the
\* record; no other event changes it.
C35_RenameStaysUntilTitle ==
    [][/\ DeleteKeepsOthers
       /\ ~RemovesRecords(last')
            => /\ \A i \in DOMAIN bookmarkChats :
                     /\ RenamedByUser(bookmarkChats[i])
                     /\ ~RenameOf(last', bookmarkChats[i])
                     /\ ~TitleChangeOf(last', bookmarkChats[i])
                     => SameNames(bookmarkChats, bookmarkChats', i)
               /\ \A f \in DOMAIN foldersData :
                     \A i \in DOMAIN foldersData[f].chats :
                        /\ RenamedByUser(foldersData[f].chats[i])
                        /\ ~RenameOf(last', foldersData[f].chats[i])
                        /\ ~TitleChangeOf(last', foldersData[f].chats[i])
                        => /\ f \in DOMAIN foldersData'
                           /\ SameNames(foldersData[f].chats, foldersData'[f].chats, i)]_vars

\* The title of page h2 has changed while the bookmark of page h1 has the
\* name X the user gave it: the bookmark keeps it.
C35_Witness ==
    /\ last.op = "titleChange"
    /\ last.href = "h2"
    /\ \E i \in DOMAIN bookmarkChats :
          bookmarkChats[i].href = "h1" /\ RenamedByUser(bookmarkChats[i])


(***************************************************************************)
(* C36: the pin control used twice                                         *)
(***************************************************************************)
PinOp(l) == l.op \in {"pinFolder", "pinChat"} /\ l.write # "none"

\* Two clicks on the pin control of the same item.
SameItem(l, m) ==
    /\ l.op = m.op
    /\ l.folder = m.folder
    /\ l.name = m.name
    /\ l.href = m.href

\* The item a pin click finds in a document.
PinTarget(data, l) ==
    IF l.op = "pinFolder"
    THEN data.foldersData[FolderIndex(data.foldersData, l.folder)]
    ELSE LET chats == ShownIn(data.foldersData, data.bookmarkChats, l.folder)
         IN  chats[ChatIndex(chats, l.name, l.href)]

\* C36: the pin control of an unpinned item (folder or chat) used twice in
\* succession restores the document exactly (the item has pinned false and
\* pinnedAt null again, its creationIndex and its place in storage are the
\* same, nothing else has changed) and with it the displayed order.
C36_PinTwiceRestores ==
    [][/\ previous # NoRecord
       /\ PinOp(last) /\ PinOp(last') /\ SameItem(last, last')
       /\ ~PinTarget(previous.data, last).pinned
       => /\ Data' = previous.data
          /\ ~PinTarget(Data', last).pinned
          /\ PinTarget(Data', last).pinnedAt = Null
          /\ rendered' = previous.rendered]_vars

\* A chat of a folder, unpinned in every stored document of this
\* specification, has been pinned and unpinned again; in between it was pinned
\* and the list showed it so.
C36_Witness ==
    /\ previous # NoRecord
    /\ last.op = "pinChat" /\ last.folder # EmptyStr /\ last.write # "none"
    /\ ~PinTarget(Data, last).pinned
    /\ PinTarget(previous.data, last).pinned
    /\ PinTarget(previous.data, last).pinnedAt # Null
    /\ previous.rendered # rendered


(***************************************************************************)
(* The v1.9.0 script (src/unnamed/part_000).  Its document is an array of   *)
(* folders; a folder's chats are an array object that the folder's closure  *)
(* in createFolder also holds, so arrays and chat objects are kept in a     *)
(* heap: objs[k] is a chat object, arrs[a] the object numbers of an array.  *)
(***************************************************************************)
\* The chats of an array, in its order.
Deref(v, a) == [i \in DOMAIN v.arrs[a] |-> v.objs[v.arrs[a][i]]]

\* JSON.stringify(foldersData)
stringifyFolders(v) ==
    [kind |-> "json",
     value |-> [i \in DOMAIN v.foldersData |->
                   [name |-> v.foldersData[i].name,
                    chats |-> Deref(v, v.foldersData[i].chats),
                    pinned |-> v.foldersData[i].pinned]]]

\* saveFoldersData(foldersData): a failing setItem is caught and logged.
saveFoldersData(v, writeOk) ==
    IF writeOk THEN [v EXCEPT !.item = stringifyFolders(v)] ELSE v

\* The sort of renderFolders and renderChatsInFolder: pinned first, the order
\* otherwise kept (the sort is stable).
PinnedFirst(items) ==
    SelectSeq(items, LAMBDA x : x.pinned) \o SelectSeq(items, LAMBDA x : ~x.pinned)

\* renderChatsInFolder(folderContent, folderChats, currentFolderName): the rows
\* createChatItem makes, each with the name, the href and the folder name its
\* handlers will use.
renderChatsInFolder19(v, folderChats, currentFolderName) ==
    LET sortedChats == PinnedFirst(Deref(v, folderChats))
    IN  [i \in DOMAIN sortedChats |->
            [name |-> sortedChats[i].name, href |-> sortedChats[i].href,
             folder |-> currentFolderName]]

\* createFolder(folderName, folderChats, pinned): a folder node, closed, with
\* the name and the array its handlers will use.
createFolderNode(v, folder) ==
    [name |-> folder.name, chats |-> folder.chats, open |-> FALSE,
     rows |-> renderChatsInFolder19(v, folder.chats, folder.name)]

\* renderFolders()
renderFolders(v) ==
    LET sortedFolders == PinnedFirst(v.foldersData)
    IN  [v EXCEPT !.nodes =
            [i \in DOMAIN sortedFolders |-> createFolderNode(v, sortedFolders[i])]]

\* A folder of a parsed text put in memory: a missing pinned becomes false.
RECURSIVE LoadFolders(_, _)
LoadFolders(v, value) ==
    IF value = <<>> THEN v
    ELSE LET f == Head(value)
             base == Len(v.objs)
             chats == [i \in DOMAIN f.chats |->
                          [name |-> f.chats[i].name, href |-> f.chats[i].href,
                           pinned |-> IF "pinned" \in DOMAIN f.chats[i]
                                      THEN f.chats[i].pinned ELSE FALSE]]
             loaded == [v EXCEPT
                           !.objs = @ \o chats,
                           !.arrs = Append(@, [i \in DOMAIN chats |-> base + i]),
                           !.foldersData =
                               Append(@, [name |-> f.name, chats |-> Len(v.arrs) + 1,
                                          pinned |-> IF "pinned" \in DOMAIN f
                                                     THEN f.pinned ELSE FALSE])]
         IN  LoadFolders(loaded, Tail(value))

\* loadFoldersData() and the loop that gives every folder and chat a pinned
\* property, then the first renderFolders().
initMyFolders19(item) ==
    LET started == [NotRunning EXCEPT !.item = item, !.running = TRUE]
    IN  renderFolders(IF item.kind = "json" THEN LoadFolders(started, item.value)
                      ELSE started)

\* What localStorage holds under 'myFoldersData': nothing, a document of this
\* release, a document of a release without pinned.
V19Stores ==
    {[kind |-> "absent", value |-> <<>>],
     [kind |-> "json",
      value |-> <<[name |-> NameA,
                   chats |-> <<[name |-> TitleT, href |-> "h1", pinned |-> FALSE],
                               [name |-> NameX, href |-> "h2", pinned |-> FALSE]>>,
                   pinned |-> FALSE]>>],
     [kind |-> "json",
      value |-> <<[name |-> NameA, chats |-> <<[name |-> TitleT, href |-> "h1"]>>]>>]}

\* The list and every folder opened by the user.
Opened(v) ==
    [v EXCEPT !.display = "block",
              !.nodes = [i \in DOMAIN v.nodes |-> [v.nodes[i] EXCEPT !.open = TRUE]]]

\* The script has run (the step taken so far); the user may have opened the
\* list and the folders.
V19Init ==
    /\ \E item \in V19Stores, opened \in BOOLEAN :
          v19 = IF opened THEN Opened(initMyFolders19(item)) ELSE initMyFolders19(item)
    /\ foldersData = <<>>
    /\ bookmarkChats = <<>>
    /\ folderExpansionState = EmptyExpansion
    /\ store = NoItem
    /\ injected = FALSE
    /\ itemsDisplay = "none"
    /\ rendered = <<>>
    /\ docTitle = TitleT
    /\ locationHref = "h1"
    /\ clock = 1
    /\ last = Last("init", EmptyStr, EmptyStr, "", EmptyStr, "none", "none", 1)
    /\ steps = 1
    /\ sortIn = <<>>
    /\ sortOut = <<>>
    /\ readerResult = NoResult
    /\ loads = 1
    /\ otherTab = FreshTab
    /\ previous = NoRecord

\* One handler of the v1.9.0 script runs: the state of the other release is
\* not touched.
V19Step ==
    /\ v19.running
    /\ CountStep
    /\ UNCHANGED <<foldersData, bookmarkChats, folderExpansionState, store, injected,
                   itemsDisplay, rendered, locationHref, clock, sortIn, sortOut,
                   readerResult, loads, otherTab>>

\* A handler that returns without a change.
V19NothingDone(op, folder, name, href, arg, notice) ==
    /\ v19' = v19
    /\ last' = Last(op, folder, name, href, arg, notice, "none", 0)

\* The folder nodes and the chat rows that can be clicked.
V19Nodes == IF v19.display = "block" THEN DOMAIN v19.nodes ELSE {}

V19Rows == {<<n, r>> \in V19Nodes \X (1 .. MaxChats) :
               v19.nodes[n].open /\ r \in DOMAIN v19.nodes[n].rows}

\* myFoldersHeader click
V19MainHeaderClick ==
    /\ V19Step
    /\ docTitle' = docTitle
    /\ v19' = [v19 EXCEPT !.display = IF @ = "none" THEN "block" ELSE "none"]
    /\ last' = Last("mainHeader", EmptyStr, EmptyStr, "", EmptyStr, "none", "none", 0)

\* createFolderButton click
V19CreateFolderClick(input, writeOk) ==
    LET sanitizedFolderName == sanitizeString(Trim(input))
        pushed == [v19 EXCEPT
                      !.arrs = Append(@, <<>>),
                      !.foldersData =
                          Append(@, [name |-> sanitizedFolderName,
                                     chats |-> Len(v19.arrs) + 1, pinned |-> FALSE])]
    IN  /\ V19Step
        /\ docTitle' = docTitle
        /\ IF input = EmptyStr
           THEN V19NothingDone("createFolder", EmptyStr, EmptyStr, "", EmptyStr, "none")
           ELSE IF sanitizedFolderName = EmptyStr
           THEN V19NothingDone("createFolder", EmptyStr, EmptyStr, "", sanitizedFolderName,
                               "invalidFolderName")
           ELSE IF \E i \in DOMAIN v19.foldersData :
                      v19.foldersData[i].name = sanitizedFolderName
           THEN V19NothingDone("createFolder", EmptyStr, EmptyStr, "", sanitizedFolderName,
                               "folderExists")
           ELSE /\ Len(v19.foldersData) < MaxFolders
                /\ v19' = renderFolders([saveFoldersData(pushed, writeOk)
                                            EXCEPT !.display = "block"])
                /\ last' = Last("createFolder", EmptyStr, EmptyStr, "",
                                sanitizedFolderName, "none", WriteResult(writeOk), 1)

\* folderButton click
V19FolderButtonClick(n) ==
    /\ n \in V19Nodes
    /\ V19Step
    /\ docTitle' = docTitle
    /\ v19' = [v19 EXCEPT !.nodes[n].open = ~@]
    /\ last' = Last("toggleFolder", v19.nodes[n].name, EmptyStr, "", EmptyStr, "none",
                    "none", 0)

\* folderButton dblclick: the folder's name in the document, the text of the
\* node and the closure's currentFolderName change; the chat rows are not made
\* anew.
V19FolderButtonDblClick(n, input, writeOk) ==
    LET currentFolderName == v19.nodes[n].name
        sanitizedNewName == sanitizeString(Trim(input))
        folderIndex == FolderIndex(v19.foldersData, currentFolderName)
        renamed == IF folderIndex # 0
                   THEN saveFoldersData(
                            [v19 EXCEPT !.foldersData[folderIndex].name = sanitizedNewName],
                            writeOk)
                   ELSE v19
    IN  /\ n \in V19Nodes
        /\ V19Step
        /\ docTitle' = docTitle
        /\ IF input = EmptyStr
           THEN V19NothingDone("renameFolder", currentFolderName, EmptyStr, "", EmptyStr,
                               "none")
           ELSE IF sanitizedNewName = EmptyStr
           THEN V19NothingDone("renameFolder", currentFolderName, EmptyStr, "",
                               sanitizedNewName, "invalidFolderName")
           ELSE IF \E i \in DOMAIN v19.foldersData :
                      v19.foldersData[i].name = sanitizedNewName
           THEN V19NothingDone("renameFolder", currentFolderName, EmptyStr, "",
                               sanitizedNewName, "folderExists")
           ELSE /\ v19' = [renamed EXCEPT !.nodes[n].name = sanitizedNewName]
                /\ last' = Last("renameFolder", currentFolderName, EmptyStr, "",
                                sanitizedNewName, "none",
                                IF folderIndex # 0 THEN WriteResult(writeOk) ELSE "none", 0)

\* addChatButton click: the duplicate test and the push use folderChats, the
\* array createFolder was called with.
V19AddChatClick(n, writeOk) ==
    LET currentFolderName == v19.nodes[n].name
        folderChats == v19.nodes[n].chats
        chatName == IF DocumentTitle # EmptyStr THEN DocumentTitle ELSE UnnamedChat
        sanitizedChatName == sanitizeString(Trim(chatName))
        sanitizedChatHref == locationHref
        pushed == [v19 EXCEPT
                      !.objs = Append(@, [name |-> sanitizedChatName,
                                          href |-> sanitizedChatHref, pinned |-> FALSE]),
                      !.arrs[folderChats] = Append(@, Len(v19.objs) + 1)]
        folderIndex == FolderIndex(v19.foldersData, currentFolderName)
        updated == IF folderIndex # 0
                   THEN [pushed EXCEPT !.foldersData[folderIndex].chats = folderChats]
                   ELSE [pushed EXCEPT
                            !.foldersData =
                                Append(@, [name |-> currentFolderName,
                                           chats |-> folderChats, pinned |-> FALSE])]
        saved == saveFoldersData(updated, writeOk)
    IN  /\ n \in V19Nodes
        /\ V19Step
        /\ docTitle' = docTitle
        /\ IF HasChat(Deref(v19, folderChats), sanitizedChatName, sanitizedChatHref)
           THEN V19NothingDone("addChat", currentFolderName, sanitizedChatName,
                               sanitizedChatHref, EmptyStr, "alreadyInFolder")
           ELSE /\ Len(v19.objs) < MaxChats
                /\ v19' = [saved EXCEPT
                              !.nodes[n].open = TRUE,
                              !.nodes[n].rows =
                                  renderChatsInFolder19(saved, folderChats, currentFolderName)]
                /\ last' = Last("addChat", currentFolderName, sanitizedChatName,
                                sanitizedChatHref, EmptyStr, "none", WriteResult(writeOk), 1)

\* renameButton click of a chat row
V19RenameChatClick(n, r, input, writeOk) ==
    LET row == v19.nodes[n].rows[r]
        sanitizedNewName == sanitizeString(Trim(input))
        folderIndex == FolderIndex(v19.foldersData, row.folder)
        chats == v19.foldersData[folderIndex].chats
        chatIndex == IF folderIndex = 0 THEN 0
                     ELSE ChatIndex(Deref(v19, chats), row.name, row.href)
        saved == saveFoldersData(
                     [v19 EXCEPT !.objs[v19.arrs[chats][chatIndex]].name = sanitizedNewName],
                     writeOk)
    IN  /\ <<n, r>> \in V19Rows
        /\ V19Step
        /\ docTitle' = docTitle
        /\ IF input = EmptyStr
           THEN V19NothingDone("renameChat", row.folder, row.name, row.href, EmptyStr,
                               "none")
           ELSE IF sanitizedNewName = EmptyStr
           THEN V19NothingDone("renameChat", row.folder, row.name, row.href,
                               sanitizedNewName, "invalidChatName")
           ELSE IF chatIndex = 0
           THEN V19NothingDone("renameChat", row.folder, row.name, row.href,
                               sanitizedNewName, "none")
           ELSE /\ v19' = [saved EXCEPT
                              !.nodes[n].rows =
                                  renderChatsInFolder19(saved, chats, row.folder)]
                /\ last' = Last("renameChat", row.folder, row.name, row.href,
                                sanitizedNewName, "none", WriteResult(writeOk), 1)

\* pinChatButton click
V19PinChatClick(n, r, writeOk) ==
    LET row == v19.nodes[n].rows[r]
        folderIndex == FolderIndex(v19.foldersData, row.folder)
        chats == v19.foldersData[folderIndex].chats
        chatIndex == IF folderIndex = 0 THEN 0
                     ELSE ChatIndex(Deref(v19, chats), row.name, row.href)
        saved == saveFoldersData(
                     [v19 EXCEPT !.objs[v19.arrs[chats][chatIndex]].pinned = ~@], writeOk)
    IN  /\ <<n, r>> \in V19Rows
        /\ V19Step
        /\ docTitle' = docTitle
        /\ IF chatIndex = 0
           THEN V19NothingDone("pinChat", row.folder, row.name, row.href, EmptyStr, "none")
           ELSE /\ v19' = [saved EXCEPT
                              !.nodes[n].rows =
                                  renderChatsInFolder19(saved, chats, row.folder)]
                /\ last' = Last("pinChat", row.folder, row.name, row.href, EmptyStr,
                                "none", WriteResult(writeOk), 1)

\* deleteChatButton click: filter makes a new array for the folder of the
\* document; the closure of the folder node keeps the array it had.
V19DeleteChatClick(n, r, writeOk) ==
    LET row == v19.nodes[n].rows[r]
        folderIndex == FolderIndex(v19.foldersData, row.folder)
        chats == v19.foldersData[folderIndex].chats
        filtered == SelectSeq(v19.arrs[chats],
                              LAMBDA k : v19.objs[k].name # row.name
                                         \/ v19.objs[k].href # row.href)
        newArray == Len(v19.arrs) + 1
        saved == saveFoldersData(
                     [v19 EXCEPT !.arrs = Append(@, filtered),
                                 !.foldersData[folderIndex].chats = newArray],
                     writeOk)
    IN  /\ <<n, r>> \in V19Rows
        /\ V19Step
        /\ docTitle' = docTitle
        /\ IF folderIndex = 0
           THEN V19NothingDone("deleteChat", row.folder, row.name, row.href, EmptyStr,
                               "none")
           ELSE /\ v19' = [saved EXCEPT
                              !.nodes[n].rows =
                                  renderChatsInFolder19(saved, newArray, row.folder)]
                /\ last' = Last("deleteChat", row.folder, row.name, row.href, EmptyStr,
                                "none", WriteResult(writeOk), 1)

\* pinFolderButton click
V19PinFolderClick(n, writeOk) ==
    LET currentFolderName == v19.nodes[n].name
        folderIndex == FolderIndex(v19.foldersData, currentFolderName)
    IN  /\ n \in V19Nodes
        /\ V19Step
        /\ docTitle' = docTitle
        /\ IF folderIndex = 0
           THEN V19NothingDone("pinFolder", currentFolderName, EmptyStr, "", EmptyStr,
                               "none")
           ELSE /\ v19' = renderFolders(saveFoldersData(
                              [v19 EXCEPT !.foldersData[folderIndex].pinned = ~@], writeOk))
                /\ last' = Last("pinFolder", currentFolderName, EmptyStr, "", EmptyStr,
                                "none", WriteResult(writeOk), 1)

\* deleteButton click of a folder
V19DeleteFolderClick(n, confirmed, writeOk) ==
    LET currentFolderName == v19.nodes[n].name
        folderIndex == FolderIndex(v19.foldersData, currentFolderName)
    IN  /\ n \in V19Nodes
        /\ V19Step
        /\ docTitle' = docTitle
        /\ IF ~confirmed \/ folderIndex = 0
           THEN V19NothingDone("deleteFolder", currentFolderName, EmptyStr, "", EmptyStr,
                               "none")
           ELSE /\ v19' = renderFolders(saveFoldersData(
                              [v19 EXCEPT !.foldersData = Splice(@, folderIndex)], writeOk))
                /\ last' = Last("deleteFolder", currentFolderName, EmptyStr, "", EmptyStr,
                                "none", WriteResult(writeOk), 1)

\* The objects updateChatNameIfExists renames: in each folder the first chat
\* of the href, when its name is not the new one.
TitleTargets(v, href, newName) ==
    {v.arrs[v.foldersData[f].chats][HrefIndex(Deref(v, v.foldersData[f].chats), href)] :
        f \in {g \in DOMAIN v.foldersData :
                  LET chats == Deref(v, v.foldersData[g].chats)
                      chatIndex == HrefIndex(chats, href)
                  IN  chatIndex # 0 /\ chats[chatIndex].name # newName}}

\* titleObserver: updateChatNameIfExists(window.location.href, newTitle)
V19TitleMutation(newTitle, writeOk) ==
    LET targets == TitleTargets(v19, locationHref, newTitle)
        updated == [v19 EXCEPT
                       !.objs = [k \in DOMAIN @ |->
                                    IF k \in targets THEN [@[k] EXCEPT !.name = newTitle]
                                    ELSE @[k]]]
    IN  /\ V19Step
        /\ docTitle' = newTitle
        /\ IF targets = {}
           THEN V19NothingDone("titleChange", EmptyStr, newTitle, locationHref, EmptyStr,
                               "none")
           ELSE /\ v19' = renderFolders(saveFoldersData(updated, writeOk))
                /\ last' = Last("titleChange", EmptyStr, newTitle, locationHref, EmptyStr,
                                "none", WriteResult(writeOk), 1)

V19Next ==
    \/ V19MainHeaderClick
    \/ \E input \in FolderPrompts, writeOk \in BOOLEAN : V19CreateFolderClick(input, writeOk)
    \/ \E n \in V19Nodes : V19FolderButtonClick(n)
    \/ \E n \in V19Nodes, input \in FolderPrompts, writeOk \in BOOLEAN :
          V19FolderButtonDblClick(n, input, writeOk)
    \/ \E n \in V19Nodes, writeOk \in BOOLEAN : V19AddChatClick(n, writeOk)
    \/ \E n \in V19Nodes, writeOk \in BOOLEAN : V19PinFolderClick(n, writeOk)
    \/ \E n \in V19Nodes, confirmed \in BOOLEAN, writeOk \in BOOLEAN :
          V19DeleteFolderClick(n, confirmed, writeOk)
    \/ \E row \in V19Rows, input \in ChatPrompts, writeOk \in BOOLEAN :
          V19RenameChatClick(row[1], row[2], input, writeOk)
    \/ \E row \in V19Rows, writeOk \in BOOLEAN : V19PinChatClick(row[1], row[2], writeOk)
    \/ \E row \in V19Rows, writeOk \in BOOLEAN : V19DeleteChatClick(row[1], row[2], writeOk)
    \/ \E newTitle \in Titles, writeOk \in BOOLEAN : V19TitleMutation(newTitle, writeOk)
    \/ \E href \in Hrefs : Navigate(href)

V19Spec == V19Init /\ [][V19Next]_vars


(***************************************************************************)
(* C37: a chat deleted from a folder of the v1.9.0 script                  *)
(***************************************************************************)
\* The chats of the folder of this name in the document: none when there is
\* no such folder.
ChatsOf(v, name) ==
    IF FolderIndex(v.foldersData, name) = 0 THEN <<>>
    ELSE Deref(v, v.foldersData[FolderIndex(v.foldersData, name)].chats)

\* The step gives a chat of a folder this name and href: the page is added,
\* a row is renamed, the title of the page changes.
AddsChat(l, name, href) ==
    \/ l.op = "addChat" /\ l.name = name /\ l.href = href
    \/ l.op = "renameChat" /\ l.arg = name /\ l.href = href
    \/ l.op = "titleChange" /\ l.name = name /\ l.href = href

\* C37: in the v1.9.0 script a chat that is not in a folder (a deleted chat in
\* particular) is in it after a step only if that step adds this very chat:
\* adding another chat with the folder's "+" does not bring it back, in memory
\* or in the store, and adding a chat is refused as "already in the folder"
\* only when the folder has it.
C37_DeletedStaysDeleted ==
    [][/\ \A f \in DOMAIN v19.foldersData :
             LET name == v19.foldersData[f].name
                 now == ChatsOf(v19, name)
                 next == ChatsOf(v19', name)
             IN  \A i \in DOMAIN next :
                    ~HasChat(now, next[i].name, next[i].href)
                       => AddsChat(last', next[i].name, next[i].href)
       /\ last'.op = "addChat" /\ last'.notice = "alreadyInFolder"
            => HasChat(ChatsOf(v19, last'.folder), last'.name, last'.href)
       /\ last'.write = "ok" => v19'.item = stringifyFolders(v19')]_vars

(***************************************************************************)
(* C38: the chat rows of a renamed folder of the v1.9.0 script             *)
(***************************************************************************)
\* A click on the pin or delete control of a chat row, or on its rename
\* control with a valid name typed.
RowControl(l) ==
    \/ l.op \in {"pinChat", "deleteChat"}
    \/ l.op = "renameChat" /\ l.arg # EmptyStr

\* C38: in the v1.9.0 script the rename, pin and delete controls of the chat
\* rows shown in a folder take effect (the handler finds the chat, writes the
\* document and saves it), after a rename of the folder too: no click is ignored
\* because the folder is looked up under a name it no longer has.
C38_RowControlsWork ==
    [][RowControl(last') => last'.write # "none"]_vars

=============================================================================
